---- MODULE Spec2Model ----
(***************************************************************************)
(* A model of the simulation/compute layer of three-particles: the         *)
(* particle store (StorageManager), the per-frame compute pipeline         *)
(* (ComputePipeline), the CPU burst path (IndirectRenderer), the facade    *)
(* (GPUParticleSystem.update / burst) and the bitonic sorter (GPUSorter).  *)
(*                                                                         *)
(* Time is counted in tenths of a second (one tick = 0.1 s); positions,    *)
(* velocities and forces are the y components, in whole units per tick.    *)
(* A storage attribute has a host array (cpu...) and a device buffer; the  *)
(* compute kernels read and write the device buffer only, and the host     *)
(* array is copied over the device buffer when needsUpdate was set.        *)
(***************************************************************************)
EXTENDS Integers, Sequences, FiniteSets, TLC

VARIABLES
    config,              \* GPUParticleSystem.config (after applyDefaults)
    uTime,               \* GPUParticleSystem.uTime
    emissionAccumulator, \* GPUParticleSystem.emissionAccumulator (tenths of a particle)
    nextSpawnIndex,      \* GPUParticleSystem.nextSpawnIndex
    isPlaying, isPaused, \* GPUParticleSystem._isPlaying / _isPaused
    sysProviders,        \* GPUParticleSystem.providers
    pTime,               \* ComputePipeline.uTime
    uDelta,              \* ComputePipeline.uDelta
    uSpawnCount,         \* ComputePipeline.uSpawnCount
    uSpawnOffset,        \* ComputePipeline.uSpawnOffset
    providers,           \* ComputePipeline.providers
    dirty,               \* ComputePipeline.dirty
    updateComputeNode,   \* ComputePipeline.updateComputeNode
    emitQueue,           \* IndirectRenderer.emitQueue
    irNextSpawnIndex,    \* IndirectRenderer.nextSpawnIndex
    activeCount,         \* IndirectRenderer.activeCount
    currentTime,         \* IndirectRenderer.currentTime
    burstExcess,         \* spawns the last burst performed beyond its count (history)
    cpuPositions, cpuVelocities, cpuAges, cpuLifetimes,  \* host arrays of the attributes
    needsUpdate,         \* the attributes' needsUpdate flag (set together)
    positions, velocities, ages, lifetimes,              \* device buffers
    regCount,            \* number of addProvider calls made (history)
    buildCount,          \* number of programs built: names the program object (history)
    frameLog,            \* the last update call: ids of the providers whose onSystemUpdate
                         \* ran, in call order, and 0 where the pass was submitted (history)
    dirtiedSinceBuild,   \* addProvider, removeProvider or markDirty called since the last build (history)
    changedSinceBuild,   \* a provider was added or removed since the last build (history)
    lastPass,            \* what the last compute pass did, per slot (history)
    lastOp,              \* the operation that produced this state (history)
    sinceFilled,         \* per slot: spawns made since the one that filled it, -1 if none did (history)
    minGap,              \* least sinceFilled of a slot the last operation spawned over (history)
    sMaxParticles,       \* GPUSorter.maxParticles
    distances,           \* GPUSorter.distanceBuffer
    indicesA, indicesB,  \* GPUSorter.indicesBufferA / indicesBufferB
    uCameraPos,          \* GPUSorter.uCameraPos
    uStageSize, uStepSize, uUseBufferA,  \* GPUSorter uniforms
    useBufferA,          \* the local useBufferA of executeBitonicSort
    sortPC,              \* position of GPUSorter.sort: "idle", "passes", "done"
    sortStage, sortStep, \* loop variables of executeBitonicSort
    passesDone,          \* number of bitonic passes submitted by this sort (history)
    trailRenderer,       \* GPUParticleSystem.trailRenderer: its segments and updateInterval
    lastUpdateTime,      \* TrailRenderer.lastUpdateTime
    trailPositions,      \* TrailRenderer.trailPositions
    trailHeadIndices,    \* TrailRenderer.trailHeadIndices
    sampleLog,           \* the last segments + 1 samples: heads before, cells written,
                         \* positions sampled (history)
    sampleCount,         \* number of samples taken (history)
    samplesTaken,        \* number of samples the last trail update call took (history)
    longFrame,           \* some trail update call had a deltaTime above updateInterval (history)
    framePC,             \* position of GPUParticleSystem.update: "idle", or "sort" while
                         \* the sorter of its execute call runs
    submitted,           \* the passes the last update or sort call submitted to the
                         \* device so far, in submission order (history)
    vfxGroup,            \* VFXSystemGroup: _isPlaying, _isPaused and the play flags of
                         \* the systems of its styles after the first
    vfxManager           \* VFXManager: the providers registered on each named system
                         \* and the dispose calls each provider has received

facadeVars   == <<config, uTime, emissionAccumulator, nextSpawnIndex, isPlaying,
                  isPaused>>
pipelineVars == <<pTime, uDelta, uSpawnCount, uSpawnOffset>>
providerVars == <<providers, dirty, updateComputeNode, regCount, sysProviders,
                  buildCount, frameLog, dirtiedSinceBuild, changedSinceBuild>>
burstVars    == <<emitQueue, irNextSpawnIndex, activeCount, currentTime, burstExcess>>
hostVars     == <<cpuPositions, cpuVelocities, cpuAges, cpuLifetimes, needsUpdate>>
deviceVars   == <<positions, velocities, ages, lifetimes>>
historyVars  == <<lastPass, lastOp, sinceFilled, minGap>>
sorterVars   == <<sMaxParticles, distances, indicesA, indicesB, uCameraPos,
                  uStageSize, uStepSize, uUseBufferA, useBufferA, sortPC,
                  sortStage, sortStep, passesDone>>
trailVars    == <<trailRenderer, lastUpdateTime, trailPositions, trailHeadIndices,
                  sampleLog, sampleCount, samplesTaken, longFrame>>
frameVars    == <<framePC, submitted>>
sceneVars    == <<vfxGroup, vfxManager>>
vars == <<facadeVars, pipelineVars, providerVars, burstVars, hostVars,
          deviceVars, historyVars, sorterVars, trailVars, frameVars, sceneVars>>

\* A provider is [name, priority, id, force, velocityModifier, positionModifier,
\* onSystemUpdate (whether it has that callback)];
\* id tells apart the provider objects (it is the number of the addProvider
\* call that registered it), and a node function a provider does not have is
\* <<>>, one it has is <<v>>, v the value its node yields.
\* updateComputeNode is <<>> (null) or <<program>>.

(***************************************************************************)
(* Bounds of the model                                                     *)
(***************************************************************************)
MaxCapacity == 3      \* largest maxParticles of the general specification
MaxTime == 3          \* simulation time (ticks) up to which update() is explored
MaxBurst == 2         \* largest burst count of the general specification
MaxFrames == 40       \* frames (of one tick) of the emission scenario
MaxProviders == 2     \* longest provider list explored
MaxRegistrations == 3 \* addProvider calls explored
MaxBurstTime == 24    \* simulation time (ticks) explored after the scenario burst
MaxSortCapacity == 4  \* largest maxParticles given to the sorter
MaxCoord == 2         \* largest particle coordinate given to the sorter
MaxPassCapacity == 8  \* largest maxParticles of the sorter whose passes are counted
FarDistance == 1000   \* distance beyond which the sorter's squared distances are folded
MaxSegments == 3      \* largest number of trail segments
MaxTrailInterval == 3 \* largest trail updateInterval (ticks)
MaxTrailTime == 12    \* simulation time (ticks) up to which trails are explored
MaxTrailCapacity == 2 \* largest maxParticles of a system with trails
MaxFrameCapacity == 3 \* largest maxParticles of a system whose whole frames are explored
MaxFrameTime == 4     \* simulation time (ticks) up to which whole frames are explored
MaxQueueCapacity == 2 \* largest maxParticles of a system given large bursts
MaxQueueTime == 2     \* simulation time (ticks) explored between large bursts
MaxCarry == 2         \* largest emit queue a further burst is explored from
MaxConstructCapacity == 2 \* largest maxParticles handed to the constructor
MaxConstructTime == 3  \* simulation time (ticks) explored on a constructed system
MaxConstructBurst == 2 \* largest burst on a constructed system
MaxFaultProviders == 2     \* longest provider list when faulty providers are registered
MaxFaultRegistrations == 3 \* addProvider calls explored with faulty providers
MaxFaultTime == 3          \* simulation time (ticks) explored with faulty providers
MaxMixedCapacity == 2      \* largest maxParticles when emission and bursts are mixed
MaxMixedTime == 5          \* simulation time (ticks) explored when they are mixed
MaxHashCapacity == 4       \* largest maxParticles when hash() is followed
MaxHashTime == 2           \* simulation time (ticks) explored when hash() is followed
MaxClockCapacity == 2      \* largest maxParticles when the two clocks are compared
MaxClockTime == 3          \* simulation time (ticks) explored when they are compared

Seconds(s) == 10 * s

Slots(n) == 0 .. (n - 1)

Min(a, b) == IF a < b THEN a ELSE b
Max(a, b) == IF a > b THEN a ELSE b

(***************************************************************************)
(* StorageManager                                                          *)
(***************************************************************************)
DeadSpawnTime == -1000000   \* seconds
DeadLifetime == 1           \* seconds
DeadPositionY == -999999

InitialSpawnTime == Seconds(DeadSpawnTime)

\* a store whose slots start with spawnTime 0
InitialAgesAtZero(n) == [i \in Slots(n) |-> 0]

\* StorageManager.initialize
InitialAges(n) == [i \in Slots(n) |-> InitialSpawnTime]
InitialLifetimes(n) == [i \in Slots(n) |-> Seconds(DeadLifetime)]
InitialPositions(n) == [i \in Slots(n) |-> DeadPositionY]
InitialVelocities(n) == [i \in Slots(n) |-> 0]

(***************************************************************************)
(* The alive predicate of the update kernel and of the render shaders      *)
(***************************************************************************)
IsAlive(time, spawnTime, lifetime) ==
    LET age == time - spawnTime
    IN  age >= 0 /\ age < lifetime

(***************************************************************************)
(* ComputePipeline: the update kernel, one lane per slot                   *)
(***************************************************************************)
\* 2^32 mod n, by repeated squaring of 2^16 mod n
TwoPow32Mod(n) == ((65536 % n) * (65536 % n)) % n

\* i.sub(spawnOffset.toInt()): instanceIndex is a uint, so the difference is
\* taken in 32-bit unsigned arithmetic and wraps when i < offset
U32SubMod(i, offset, n) ==
    IF i >= offset THEN (i - offset) % n
    ELSE (TwoPow32Mod(n) + ((i - offset) % n)) % n

\* indexInSpawnRange = i.sub(spawnOffset.toInt()).mod(maxParticles.toInt())
IndexInSpawnRange(i, offset, n) == U32SubMod(i, offset, n)

\* shouldSpawn = indexInSpawnRange.lessThan(spawnCount.toInt())
ShouldSpawn(i, count, offset, n) == IndexInSpawnRange(i, offset, n) < count

\* the If(shouldSpawn) block: s is the slot [pos, vel, spawnTime, lifetime]
SpawnStep(i, s, time, count, offset, cfg, rp, rv) ==
    IF ShouldSpawn(i, count, offset, cfg.maxParticles)
    THEN [pos |-> rp * cfg.emitterSize,
          vel |-> cfg.velocity + rv * cfg.velocityVariation,
          spawnTime |-> time,
          lifetime |-> cfg.lifetime]
    ELSE s

\* age read before the spawn block ran
LivenessSpawnTimeBeforeSpawn(before, after) == before.spawnTime

\* age is the node time.sub(spawnTime); it is evaluated where isAlive uses
\* it, after the spawn block, so it reads the slot as the spawn block left it
LivenessSpawnTime(before, after) == after.spawnTime

RECURSIVE SumForces(_)
SumForces(prog) ==
    IF prog = <<>> THEN 0
    ELSE (IF Head(prog).force = <<>> THEN 0 ELSE Head(prog).force[1])
         + SumForces(Tail(prog))

\* velocity modifiers summed into the running velocity
RECURSIVE SumVelocityModifiers(_, _)
SumVelocityModifiers(prog, vel) ==
    IF prog = <<>> THEN vel
    ELSE SumVelocityModifiers(Tail(prog),
            IF Head(prog).velocityModifier = <<>> THEN vel
            ELSE vel + Head(prog).velocityModifier[1])

RECURSIVE ApplyVelocityModifiers(_, _)
ApplyVelocityModifiers(prog, vel) ==
    IF prog = <<>> THEN vel
    ELSE ApplyVelocityModifiers(Tail(prog),
            IF Head(prog).velocityModifier = <<>> THEN vel
            ELSE Head(prog).velocityModifier[1])

RECURSIVE ApplyPositionModifiers(_, _)
ApplyPositionModifiers(prog, pos) ==
    IF prog = <<>> THEN pos
    ELSE ApplyPositionModifiers(Tail(prog),
            IF Head(prog).positionModifier = <<>> THEN pos
            ELSE Head(prog).positionModifier[1])

\* the body of If(isAlive): forces, velocity modifiers, drag, integration,
\* position modifiers
PhysicsStep(s, prog, delta, cfg) ==
    LET totalForce == cfg.gravity + SumForces(prog)
        vel1 == s.vel + totalForce * delta
        vel2 == ApplyVelocityModifiers(prog, vel1)
        vel3 == vel2 * (1 - cfg.drag * delta)
        pos1 == s.pos + vel3 * delta
        pos2 == ApplyPositionModifiers(prog, pos1)
    IN  [s EXCEPT !.vel = vel3, !.pos = pos2]

\* one lane of computeFn
KernelLane(i, s, prog, time, delta, count, offset, cfg, rp, rv) ==
    LET spawned == SpawnStep(i, s, time, count, offset, cfg, rp, rv)
    IN  IF IsAlive(time, LivenessSpawnTime(s, spawned), spawned.lifetime)
        THEN PhysicsStep(spawned, prog, delta, cfg)
        ELSE spawned

\* buildUpdateComputeNode: the providers are folded in, in list order
BuildUpdateComputeNode(provs) == provs

(***************************************************************************)
(* IndirectRenderer: the CPU burst path                                    *)
(***************************************************************************)
EmissionLimit == 10000
SpawnLifetimeVariation == 5  \* 0.5 s
MinimumLifetime == 1         \* 0.1 s

\* spawnParticleData: lifetime = max(0.1, spawnLifetime + rand4 * variation)
BurstLifetime(cfg, r) == Max(MinimumLifetime, cfg.lifetime + r)

\* rand4 * spawnLifetimeVariation, rand4 in [-1, 1): the whole ticks it can be
LifetimeOffsets == (0 - SpawnLifetimeVariation) .. (SpawnLifetimeVariation - 1)

\* a cursor that is advanced without wrapping
UnwrappedCursor(cursor, k, n) == cursor + k

\* a cursor that is never advanced
StuckCursor(cursor, k, n) == cursor

\* the ring cursor after k spawns
AdvanceCursor(cursor, k, n) == (cursor + k) % n

\* the host arrays after the while loop of IndirectRenderer.update has run k
\* times from cursor: iteration j writes slot (cursor + j) % n
RECURSIVE SpawnLoop(_, _, _, _, _, _, _)
SpawnLoop(h, cursor, j, k, cfg, rl, rv) ==
    IF j >= k THEN h
    ELSE LET idx == AdvanceCursor(cursor, j, cfg.maxParticles)
         IN  SpawnLoop(
                [pos |-> [h.pos EXCEPT ![idx] = 0],
                 vel |-> [h.vel EXCEPT ![idx] = cfg.velocity + rv[j] * cfg.velocityVariation],
                 ages |-> [h.ages EXCEPT ![idx] = h.time],
                 lifetimes |-> [h.lifetimes EXCEPT ![idx] = BurstLifetime(cfg, rl[j])],
                 time |-> h.time],
                cursor, j + 1, k, cfg, rl, rv)

\* the iterations of a loop of k spawns over a ring of n slots that decide
\* what it leaves: every slot holds what the last iteration over it wrote and
\* was last spawned over (k - 1 - that iteration) spawns ago, which for
\* k > 2n are the values a loop of n + 1 + ((k - n - 1) mod n) iterations
\* from the same cursor leaves
EffectiveIterations(k, n) ==
    IF k <= 2 * n THEN k ELSE n + 1 + ((k - n - 1) % n)

(***************************************************************************)
(* History of the ring: which spawn filled a slot, counted in spawns       *)
(***************************************************************************)
\* the slots a burst of k spawns writes from cursor, in loop order
RECURSIVE BurstWrites(_, _, _, _)
BurstWrites(cursor, j, k, n) ==
    IF j >= k THEN <<>>
    ELSE <<AdvanceCursor(cursor, j, n)>> \o BurstWrites(cursor, j + 1, k, n)

\* the slots of lanes lo .. hi whose place in the spawn range is r, in lane
\* order
RECURSIVE LanesAt(_, _, _, _, _)
LanesAt(r, lo, hi, offset, n) ==
    IF lo > hi THEN <<>>
    ELSE IF lo = hi
    THEN (IF IndexInSpawnRange(lo, offset, n) = r THEN <<lo>> ELSE <<>>)
    ELSE LET mid == (lo + hi) \div 2
         IN  LanesAt(r, lo, mid, offset, n) \o LanesAt(r, mid + 1, hi, offset, n)

\* the slots a compute pass spawns, by place r .. count-1 in the spawn range
RECURSIVE PassWrites(_, _, _, _)
PassWrites(r, count, offset, n) ==
    IF r >= count \/ r >= n THEN <<>>
    ELSE LanesAt(r, 0, n - 1, offset, n) \o PassWrites(r + 1, count, offset, n)

\* g = [since, gap] after the spawns writes, one after the other
RECURSIVE RecordSpawns(_, _, _)
RecordSpawns(g, writes, n) ==
    IF writes = <<>> THEN g
    ELSE LET s == Head(writes)
             gapHere == IF g.since[s] < 0 THEN n ELSE g.since[s]
         IN  RecordSpawns(
                [since |-> [t \in DOMAIN g.since |->
                              IF t = s THEN 0
                              ELSE IF g.since[t] < 0 THEN -1
                              ELSE Min(n, g.since[t] + 1)],
                 gap |-> Min(g.gap, gapHere)],
                Tail(writes), n)

(***************************************************************************)
(* TrailRenderer: the ring of sampled positions of each particle           *)
(***************************************************************************)
\* if (this.config.trail?.enabled)
HasTrail(cfg) == "trail" \in DOMAIN cfg /\ cfg.trail.enabled

\* a head that stays where it is
HeldHeadIdx(headIdx, segments) == headIdx

\* a head that moves forward without wrapping
UnwrappedHeadIdx(headIdx, segments) == headIdx + 1

\* headIdx.add(1).mod(float(segments))
NewHeadIdx(headIdx, segments) == (headIdx + 1) % segments

\* particleIdx.mul(float(segments)).add(ringIdx).toInt()
StorageIdx(particleIdx, ringIdx, segments) == particleIdx * segments + ringIdx

\* the cells written when a lane writes at its head before moving it
TrailWritesAtHead(heads, segments, n) ==
    [i \in Slots(n) |-> StorageIdx(i, heads[i], segments)]

\* the ring cells one run of the trail update pass writes, one lane per
\* particle: the lane's cell is the one at its new head
TrailWrites(heads, segments, n) ==
    [i \in Slots(n) |-> StorageIdx(i, NewHeadIdx(heads[i], segments), segments)]

\* the ring after one run of the trail update pass over the positions pos
SampledRing(ring, heads, pos, segments, n) ==
    [j \in Slots(n * segments) |->
        IF j = TrailWrites(heads, segments, n)[j \div segments]
        THEN pos[j \div segments]
        ELSE ring[j]]

\* lanes for the slots that are alive only
AliveLanes(n) == {i \in Slots(n) : IsAlive(pTime, ages[i], lifetimes[i])}

\* buildTrailUpdateCompute().compute(this.maxParticles): one lane per slot,
\* and the kernel has no test of the slot's state
TrailLanes(n) == Slots(n)

\* currentTime - this.lastUpdateTime >= this.updateInterval
SampleDue(now, last, interval) == now - last >= interval

\* the last k entries of a sequence
LastOf(seq, k) ==
    IF Len(seq) <= k THEN seq ELSE SubSeq(seq, Len(seq) - k + 1, Len(seq))

\* TrailRenderer.update(renderer, deltaTime, currentTime) with the position
\* buffer pos the compute pass left
TrailUpdate(deltaTime, now, pos) ==
    LET t == trailRenderer[1]
        n == config.maxParticles
    IN  /\ longFrame' = (longFrame \/ deltaTime > t.updateInterval)
        /\ IF SampleDue(now, lastUpdateTime, t.updateInterval)
           THEN /\ lastUpdateTime' = now
                /\ trailPositions' =
                      SampledRing(trailPositions, trailHeadIndices, pos, t.segments, n)
                /\ trailHeadIndices' =
                      [i \in Slots(n) |->
                          IF i \in TrailLanes(n)
                          THEN NewHeadIdx(trailHeadIndices[i], t.segments)
                          ELSE trailHeadIndices[i]]
                /\ sampleLog' =
                      LastOf(Append(sampleLog,
                                    [head |-> trailHeadIndices,
                                     at |-> TrailWrites(trailHeadIndices, t.segments, n),
                                     pos |-> pos]),
                             t.segments + 1)
                /\ sampleCount' = sampleCount + 1
                /\ samplesTaken' = 1
                /\ UNCHANGED trailRenderer
           ELSE /\ samplesTaken' = 0
                /\ UNCHANGED <<trailRenderer, lastUpdateTime, trailPositions,
                               trailHeadIndices, sampleLog, sampleCount>>

\* STEP 3 of GPUParticleSystem.update: if (this.trailRenderer)
TrailStep(deltaTime, now, pos) ==
    IF trailRenderer # <<>>
    THEN TrailUpdate(deltaTime, now, pos)
    ELSE UNCHANGED trailVars

\* the position attribute of the trail mesh at the vertices of particle p,
\* point s: the array is allocated and never filled
PositionLocal(p, s) == [x |-> 0, y |-> 0]

\* headIdx.add(float(segments).sub(segmentIdx)).mod(float(segments))
ReadSegment(headIdx, segmentIdx, segments) ==
    (headIdx + (segments - segmentIdx)) % segments

\* p0 of the trail material's position node at the vertices of particle p,
\* point s
RibbonPoint(p, s) ==
    LET segments == trailRenderer[1].segments
        particleIdx == PositionLocal(p, s).x
        segmentIdx == PositionLocal(p, s).y
    IN  trailPositions[StorageIdx(particleIdx,
                                  ReadSegment(trailHeadIndices[particleIdx],
                                              segmentIdx, segments),
                                  segments)]

\* the trail renderer the constructor of GPUParticleSystem creates
TrailInit(cfg) ==
    /\ trailRenderer =
          IF HasTrail(cfg)
          THEN <<[segments |-> cfg.trail.segments,
                  updateInterval |-> cfg.trail.updateInterval]>>
          ELSE <<>>
    /\ lastUpdateTime = 0
    /\ trailPositions =
          IF HasTrail(cfg)
          THEN [j \in Slots(cfg.maxParticles * cfg.trail.segments) |-> 0]
          ELSE <<>>
    /\ trailHeadIndices =
          IF HasTrail(cfg) THEN [i \in Slots(cfg.maxParticles) |-> 0] ELSE <<>>
    /\ sampleLog = <<>>
    /\ sampleCount = 0
    /\ samplesTaken = 0
    /\ longFrame = FALSE

(***************************************************************************)
(* The initial state: the objects as their constructors leave them         *)
(***************************************************************************)
NoPass == [ran |-> FALSE]

\* Math.log2 of a power of two
RECURSIVE Log2(_)
Log2(p) == IF p <= 1 THEN 0 ELSE 1 + Log2(p \div 2)

\* 1 << k
RECURSIVE Shl1(_)
Shl1(k) == IF k = 0 THEN 1 ELSE 2 * Shl1(k - 1)

\* GPUSorter.nextPowerOf2: Math.pow(2, Math.ceil(Math.log2(n)))
RECURSIVE NextPowerOf2From(_, _)
NextPowerOf2From(p, n) == IF p >= n THEN p ELSE NextPowerOf2From(2 * p, n)
NextPowerOf2(n) == IF n = 0 THEN 0 ELSE NextPowerOf2From(1, n)

PaddedSize == NextPowerOf2(sMaxParticles)

\* a float above every squared distance of the model, and its negation
Infinity == MaxCoord * MaxCoord + 1
NegInfinity == 0 - Infinity

\* the sorter as its constructor leaves it for capacity n: the typed index
\* arrays are filled but never attached, so both index buffers hold zeros
SorterInit(n) ==
    /\ sMaxParticles = n
    /\ distances = [i \in Slots(NextPowerOf2(n)) |-> IF i < n THEN 0 ELSE NegInfinity]
    /\ indicesA = [i \in Slots(NextPowerOf2(n)) |-> 0]
    /\ indicesB = [i \in Slots(NextPowerOf2(n)) |-> 0]
    /\ uCameraPos = 0
    /\ uStageSize = 0
    /\ uStepSize = 0
    /\ uUseBufferA = 1
    /\ useBufferA = TRUE
    /\ sortPC = "idle"
    /\ sortStage = 0
    /\ sortStep = 0
    /\ passesDone = 0

\* no VFXSystemGroup holds the system
NoGroup == [styles |-> 0, isPlaying |-> FALSE, isPaused |-> FALSE, systems |-> <<>>]

\* no VFXManager holds the system
NoManager == [depthCollisionEnabled |-> FALSE, systems |-> <<>>, disposeCalls |-> <<>>]

\* the fields the constructor leaves, and where its caller stands: "idle" with
\* the object in hand, "threw" when the constructor raised
SystemFieldsInit(cfg, pos, pc) ==
    /\ config = cfg
    /\ uTime = 0
    /\ emissionAccumulator = 0
    /\ nextSpawnIndex = 0
    /\ isPlaying = TRUE
    /\ isPaused = FALSE
    /\ sysProviders = <<>>
    /\ buildCount = 0
    /\ frameLog = <<>>
    /\ dirtiedSinceBuild = FALSE
    /\ changedSinceBuild = FALSE
    /\ pTime = 0
    /\ uDelta = 0
    /\ uSpawnCount = 0
    /\ uSpawnOffset = 0
    /\ providers = <<>>
    /\ dirty = TRUE
    /\ updateComputeNode = <<>>
    /\ regCount = 0
    /\ emitQueue = 0
    /\ irNextSpawnIndex = 0
    /\ activeCount = 0
    /\ currentTime = 0
    /\ burstExcess = 0
    /\ cpuPositions = InitialPositions(cfg.maxParticles)
    /\ cpuVelocities = InitialVelocities(cfg.maxParticles)
    /\ cpuAges = InitialAges(cfg.maxParticles)
    /\ cpuLifetimes = InitialLifetimes(cfg.maxParticles)
    /\ needsUpdate = FALSE
    /\ positions = pos
    /\ velocities = InitialVelocities(cfg.maxParticles)
    /\ ages = InitialAges(cfg.maxParticles)
    /\ lifetimes = InitialLifetimes(cfg.maxParticles)
    /\ lastPass = NoPass
    /\ lastOp = "new"
    /\ sinceFilled = [i \in Slots(cfg.maxParticles) |-> -1]
    /\ minGap = cfg.maxParticles
    /\ TrailInit(cfg)
    /\ framePC = pc
    /\ submitted = <<>>

\* new GPUParticleSystem(config) outside any group or manager
SystemInitWith(cfg, pos, pc) ==
    /\ SystemFieldsInit(cfg, pos, pc)
    /\ vfxGroup = NoGroup
    /\ vfxManager = NoManager

SystemInitAt(cfg, pos) == SystemInitWith(cfg, pos, "idle")

SystemInit(cfg) == SystemInitAt(cfg, InitialPositions(cfg.maxParticles))

(***************************************************************************)
(* GPUParticleSystem.update                                                *)
(***************************************************************************)
\* the accumulator rounded to the nearest whole particle
RoundedParticles(acc) == (acc + 5) \div 10

\* Math.floor of the accumulator, which is kept in tenths of a particle
WholeParticles(acc) == acc \div 10

\* the device buffers the pass starts from: a host array whose needsUpdate is
\* set is copied whole over its device buffer when the pass binds it
Bound(host, device) == IF needsUpdate THEN host ELSE device

\* the ids of the providers of list that have onSystemUpdate, in list order
RECURSIVE HostUpdates(_)
HostUpdates(list) ==
    IF list = <<>> THEN <<>>
    ELSE (IF Head(list).onSystemUpdate THEN <<Head(list).id>> ELSE <<>>)
         \o HostUpdates(Tail(list))

\* the uniforms of a pass that reads none of the sorter's
NoUniforms == [stageSize |-> 0, stepSize |-> 0, useBufferA |-> 0]

\* a pass as renderer.compute / renderer.computeAsync is handed it: its
\* program, the host loop position (stage, step) that submitted it, the
\* uniform values uploaded with it, the index buffers it reads and writes,
\* and for each element of the written buffer the lanes that write it
PassEntry(name, stage, step, u, reads, writes, writers) ==
    [pass |-> name, stage |-> stage, step |-> step, uniforms |-> u,
     reads |-> reads, writes |-> writes, writers |-> writers]

\* renderer.computeAsync(this.updateComputeNode)
UpdatePass == PassEntry("update", -1, -1, NoUniforms, "-", "-", <<>>)

\* renderer.compute(this.computeNode) of the trail renderer
TrailPass == PassEntry("trail", -1, -1, NoUniforms, "-", "-", <<>>)

\* the pass TrailRenderer.update submits at time now, if any
TrailSubmits(now) ==
    IF trailRenderer # <<>>
       /\ SampleDue(now, lastUpdateTime, trailRenderer[1].updateInterval)
    THEN <<TrailPass>> ELSE <<>>

\* a program rebuilt only when there is none
RebuildWhenMissing(d, node) == node = <<>>

\* if (this.dirty || !this.updateComputeNode)
NeedsRebuild(d, node) == d \/ node = <<>>

\* a pipeline clock that takes the facade's deltaTime twice
PipelineTimeTwice(t, delta) == t + 2 * delta

\* ComputePipeline.execute: this.uTime.value += deltaTime
PipelineTime(t, delta) == t + delta

\* a spawn queue that is left as it is
KeptSpawnCount(count) == count

\* clearSpawnQueue: uSpawnCount.value = 0
ClearSpawnQueue(count) == 0

\* an early return taken by a stopped system only
SkipsWhenStopped(paused, playing) == ~playing

\* if (this._isPaused || !this._isPlaying) return
Skips(paused, playing) == paused \/ ~playing

\* update(renderer, deltaTime, camera) while paused or stopped: the early
\* return
SkippedUpdate ==
    /\ lastPass' = NoPass
    /\ lastOp' = "update"
    /\ frameLog' = <<>>
    /\ submitted' = <<>>
    /\ minGap' = config.maxParticles
    /\ UNCHANGED <<facadeVars, pipelineVars, providers, dirty, updateComputeNode,
                   regCount, sysProviders, buildCount, dirtiedSinceBuild,
                   changedSinceBuild, burstVars, hostVars, deviceVars,
                   sinceFilled, sorterVars, trailVars, framePC, sceneVars>>

\* update(renderer, deltaTime, camera) while playing; rp and rv are what
\* hash() yields for each slot's position and velocity variation; sorterStep is
\* what execute does with its sorter and trailStep what STEP 3 does
RunUpdateWith(delta, rp, rv, sorterStep, trailStep) ==
    LET n == config.maxParticles
        acc == emissionAccumulator + config.emissionRate * delta
        toSpawn == IF config.emissionRate > 0 THEN WholeParticles(acc) ELSE 0
        count == IF toSpawn > 0 THEN toSpawn ELSE uSpawnCount
        offset == IF toSpawn > 0 THEN nextSpawnIndex ELSE uSpawnOffset
        time == PipelineTime(pTime, delta)
        rebuild == NeedsRebuild(dirty, updateComputeNode)
        prog == IF rebuild
                THEN BuildUpdateComputeNode(providers)
                ELSE updateComputeNode[1]
        build == IF rebuild THEN buildCount + 1 ELSE buildCount
        slot(i) == [pos |-> Bound(cpuPositions, positions)[i],
                    vel |-> Bound(cpuVelocities, velocities)[i],
                    spawnTime |-> Bound(cpuAges, ages)[i],
                    lifetime |-> Bound(cpuLifetimes, lifetimes)[i]]
        after(i) == SpawnStep(i, slot(i), time, count, offset, config, rp[i], rv[i])
        out(i) == KernelLane(i, slot(i), prog, time, delta, count, offset,
                             config, rp[i], rv[i])
    IN  /\ uTime' = uTime + delta
        /\ emissionAccumulator' =
              IF config.emissionRate > 0 THEN acc - 10 * toSpawn
              ELSE emissionAccumulator
        /\ nextSpawnIndex' =
              IF toSpawn > 0 THEN AdvanceCursor(nextSpawnIndex, toSpawn, n)
              ELSE nextSpawnIndex
        /\ uDelta' = delta
        /\ pTime' = time
        /\ uSpawnOffset' = offset
        /\ uSpawnCount' = ClearSpawnQueue(count)
        /\ dirty' = FALSE
        /\ updateComputeNode' = <<prog>>
        /\ buildCount' = build
        /\ frameLog' = HostUpdates(sysProviders) \o HostUpdates(providers) \o <<0>>
        /\ dirtiedSinceBuild' = (dirtiedSinceBuild /\ ~rebuild)
        /\ changedSinceBuild' = (changedSinceBuild /\ ~rebuild)
        /\ positions' = [i \in Slots(n) |-> out(i).pos]
        /\ velocities' = [i \in Slots(n) |-> out(i).vel]
        /\ ages' = [i \in Slots(n) |-> out(i).spawnTime]
        /\ lifetimes' = [i \in Slots(n) |-> out(i).lifetime]
        /\ needsUpdate' = FALSE
        /\ lastPass' = [ran |-> TRUE, time |-> time, delta |-> delta,
                        count |-> count, offset |-> offset, program |-> prog,
                        rebuilt |-> rebuild, build |-> build,
                        built |-> buildCount, first |-> (updateComputeNode = <<>>),
                        dirtied |-> dirtiedSinceBuild, changed |-> changedSinceBuild,
                        before |-> [i \in Slots(n) |-> slot(i)],
                        spawned |-> [i \in Slots(n) |-> after(i)]]
        /\ lastOp' = "update"
        /\ LET g == RecordSpawns([since |-> sinceFilled, gap |-> n],
                                 PassWrites(0, count, offset, n), n)
           IN  sinceFilled' = g.since /\ minGap' = g.gap
        /\ sorterStep
        /\ trailStep
        /\ UNCHANGED <<config, isPlaying, isPaused, providers, regCount,
                       sysProviders, burstVars, cpuPositions, cpuVelocities,
                       cpuAges, cpuLifetimes, sceneVars>>

\* update(renderer, deltaTime, camera) of a playing system without a sorter
RunUpdate(delta, rp, rv) ==
    RunUpdateWith(delta, rp, rv,
                  /\ submitted' = <<UpdatePass>> \o TrailSubmits(uTime + delta)
                  /\ UNCHANGED <<sorterVars, framePC>>,
                  TrailStep(delta, uTime + delta, positions'))

\* update(renderer, deltaTime, camera)
Update(delta, rp, rv) ==
    IF Skips(isPaused, isPlaying) THEN SkippedUpdate ELSE RunUpdate(delta, rp, rv)

(***************************************************************************)
(* GPUParticleSystem.burst                                                 *)
(***************************************************************************)
\* burst(count): IndirectRenderer.emit then IndirectRenderer.update(uTime);
\* rl[j] and rv[j] are the random lifetime offset and velocity variation of
\* the j-th spawn of the loop
Burst(count, rl, rv) ==
    LET n == config.maxParticles
        queued == emitQueue + count
        emitted == IF queued > 0 THEN Min(queued, EmissionLimit) ELSE 0
        left == queued - emitted
        run == EffectiveIterations(emitted, n)
        h == SpawnLoop([pos |-> cpuPositions, vel |-> cpuVelocities,
                        ages |-> cpuAges, lifetimes |-> cpuLifetimes,
                        time |-> uTime],
                       irNextSpawnIndex, 0, run, config, rl, rv)
    IN  /\ currentTime' = uTime
        /\ burstExcess' = emitted - count
        /\ emitQueue' = IF left > EmissionLimit THEN 0 ELSE left
        /\ irNextSpawnIndex' = AdvanceCursor(irNextSpawnIndex, emitted, n)
        /\ activeCount' = Min(n, activeCount + emitted)
        /\ cpuPositions' = h.pos
        /\ cpuVelocities' = h.vel
        /\ cpuAges' = h.ages
        /\ cpuLifetimes' = h.lifetimes
        /\ needsUpdate' = (needsUpdate \/ emitted > 0)
        /\ lastPass' = NoPass
        /\ lastOp' = "burst"
        /\ LET g == RecordSpawns([since |-> sinceFilled, gap |-> n],
                                 BurstWrites(irNextSpawnIndex, 0, run, n), n)
           IN  sinceFilled' = g.since /\ minGap' = g.gap
        /\ UNCHANGED <<facadeVars, pipelineVars, providerVars, deviceVars,
                       sorterVars, trailVars, frameVars, sceneVars>>

(***************************************************************************)
(* A frame rendered between two updates: the render shaders bind the same  *)
(* storage attributes, so a pending host array is uploaded                 *)
(***************************************************************************)
Render ==
    /\ needsUpdate
    /\ positions' = cpuPositions
    /\ velocities' = cpuVelocities
    /\ ages' = cpuAges
    /\ lifetimes' = cpuLifetimes
    /\ needsUpdate' = FALSE
    /\ lastPass' = NoPass
    /\ lastOp' = "render"
    /\ minGap' = config.maxParticles
    /\ UNCHANGED sinceFilled
    /\ UNCHANGED <<facadeVars, pipelineVars, providerVars, burstVars,
                   cpuPositions, cpuVelocities, cpuAges, cpuLifetimes,
                   sorterVars, trailVars, frameVars, sceneVars>>

(***************************************************************************)
(* The general specification: any configuration, any interleaving of       *)
(* update, burst and render                                                *)
(***************************************************************************)
Deltas == {0, 1, 2}
\* what hash() and Math.random() yield in the general specification
RandPosition == {0}
RandVelocity == {1}
BurstOffsets == {0}

Configs ==
    [maxParticles : 1 .. MaxCapacity, lifetime : {2},
     emissionRate : {0, 15}, velocity : {2}, velocityVariation : {1},
     emitterSize : {1}, gravity : {-1}, drag : {0, 1}]

Init ==
    /\ \E cfg \in Configs : SystemInit(cfg)
    /\ SorterInit(1)

UpdateAny ==
    \E d \in Deltas :
        /\ uTime + d <= MaxTime
        /\ \E rp \in [Slots(config.maxParticles) -> RandPosition],
              rv \in [Slots(config.maxParticles) -> RandVelocity] : Update(d, rp, rv)

BurstAny ==
    \E c \in 0 .. MaxBurst :
        \E rl \in [0 .. (c - 1) -> BurstOffsets], rv \in [0 .. (c - 1) -> RandVelocity] :
            Burst(c, rl, rv)

Next == UpdateAny \/ BurstAny \/ Render

Spec == Init /\ [][Next]_vars

(***************************************************************************)
(* Claims about the store and the update kernel                            *)
(***************************************************************************)
\* the slots {(o + k) mod n : 0 <= k < c}
RingRange(o, c, n) == {(o + k) % n : k \in 0 .. (c - 1)}

\* C1: in every compute pass a slot receives the physics steps iff
\* 0 <= time - spawnTime < lifetime holds with the spawnTime and lifetime the
\* pass's spawn step left; a slot spawned in the pass (lifetime > 0) is
\* integrated in that pass, and a slot failing the predicate keeps the
\* position and velocity the spawn step left.
C1_PhysicsIffAlive ==
    lastPass.ran =>
        \A i \in Slots(config.maxParticles) :
            LET s == lastPass.spawned[i]
                physics == PhysicsStep(s, lastPass.program, lastPass.delta, config)
                alive == IsAlive(lastPass.time, s.spawnTime, s.lifetime)
            IN  /\ ages[i] = s.spawnTime
                /\ lifetimes[i] = s.lifetime
                /\ alive => positions[i] = physics.pos /\ velocities[i] = physics.vel
                /\ ~alive => positions[i] = s.pos /\ velocities[i] = s.vel
                /\ ( /\ ShouldSpawn(i, lastPass.count, lastPass.offset, config.maxParticles)
                     /\ config.lifetime > 0 ) => alive

\* a pass of positive delta has spawned and integrated one slot and left a
\* dead slot alone
C1_Witness ==
    /\ lastPass.ran
    /\ lastPass.delta > 0
    /\ \E i \in Slots(config.maxParticles) :
          /\ ShouldSpawn(i, lastPass.count, lastPass.offset, config.maxParticles)
          /\ velocities[i] # lastPass.spawned[i].vel
    /\ \E j \in Slots(config.maxParticles) :
          /\ ~IsAlive(pTime, ages[j], lifetimes[j])
          /\ positions[j] = lastPass.before[j].pos

\* C2: a pass run with a spawn of count c queued at offset o marks exactly the
\* slots {(o + k) mod N : 0 <= k < c} with spawnTime = time and leaves
\* spawnTime and lifetime of every other slot as they were.
C2_RingSpawnExact ==
    lastPass.ran =>
        \A i \in Slots(config.maxParticles) :
            IF i \in RingRange(lastPass.offset, lastPass.count, config.maxParticles)
            THEN ages[i] = lastPass.time
            ELSE /\ ages[i] = lastPass.before[i].spawnTime
                 /\ lifetimes[i] = lastPass.before[i].lifetime

\* C6: burst and continuous emission take their slots from one advancing ring
\* cursor, so a slot is spawned over only after capacity - 1 other spawns
\* have been made since the spawn that filled it.
C6_OldestOverwritten == minGap >= config.maxParticles - 1

\* C9: a slot no spawn has selected yet is not alive, on the device and in the
\* host arrays, from construction on.
C9_DeadUntilSpawned ==
    \A i \in Slots(config.maxParticles) :
        sinceFilled[i] < 0 =>
            /\ ~IsAlive(pTime, ages[i], lifetimes[i])
            /\ ~IsAlive(uTime, cpuAges[i], cpuLifetimes[i])

\* time has advanced; one slot is alive and another was never spawned
C9_Witness ==
    /\ uTime > 0
    /\ \E i \in Slots(config.maxParticles) : sinceFilled[i] < 0
    /\ \E j \in Slots(config.maxParticles) : IsAlive(pTime, ages[j], lifetimes[j])

(***************************************************************************)
(* GPUSorter                                                               *)
(***************************************************************************)
\* i.bitXor(stepSize), stepSize a power of two
BitXor(i, stepSize) ==
    IF (i \div stepSize) % 2 = 0 THEN i + stepSize ELSE i - stepSize

\* ascending = (i & (stageSize - 1)) < stageSize / 2
Ascending(i, stageSize) == (i % stageSize) < (stageSize \div 2)

\* needsSwap of lane i against its partner, reading the index buffer read
NeedsSwap(i, read, dist, stageSize, stepSize) ==
    LET distI == dist[read[i]]
        distPartner == dist[read[BitXor(i, stepSize)]]
    IN  IF Ascending(i, stageSize) THEN distI > distPartner
        ELSE distI < distPartner

\* the lanes whose partner is below them: each copies its own element
\* through, to the element its partner's lane writes as well
UpperLanes(p, stepSize) == {i \in Slots(p) : BitXor(i, stepSize) < i}

\* the upper lanes whose copy differs from what the partner's lane writes
ContendedLanes(read, dist, p, stageSize, stepSize) ==
    {i \in UpperLanes(p, stepSize) :
        NeedsSwap(BitXor(i, stepSize), read, dist, stageSize, stepSize)}

\* the index buffer one pass writes; copyLast are the upper lanes whose own
\* write lands after their partner's
BitonicPassOutput(read, dist, p, stageSize, stepSize, copyLast) ==
    [i \in Slots(p) |->
        LET partner == BitXor(i, stepSize)
        IN  IF partner > i
            THEN (IF NeedsSwap(i, read, dist, stageSize, stepSize)
                  THEN read[partner] ELSE read[i])
            ELSE IF i \in copyLast THEN read[i]
            ELSE (IF NeedsSwap(partner, read, dist, stageSize, stepSize)
                  THEN read[partner] ELSE read[i])]

\* diff.dot(diff); a square beyond FarDistance squared is folded to it, which
\* keeps it above the square of every nearer difference
SquaredLength(diff) ==
    IF diff > FarDistance \/ diff < 0 - FarDistance THEN FarDistance * FarDistance
    ELSE diff * diff

\* buildDistanceComputeNode's kernel, lane i
DistanceOf(i, pos, cam, n) ==
    IF i < n THEN 0 - SquaredLength(pos[i] - cam) ELSE Infinity

\* the passes counted as one per stage
TotalPassesAsStages == Log2(PaddedSize)

\* getTotalPasses
TotalPasses == (Log2(PaddedSize) * (Log2(PaddedSize) + 1)) \div 2

\* getSortedIndicesBuffer
SortedIndicesBuffer == IF TotalPasses % 2 = 0 THEN indicesA ELSE indicesB

\* loops that submit one pass per stage
LoopNextStage(stage, step) == [stage |-> stage + 1, step |-> 0]

\* the (stage, step) that follows (stage, step) in the loops of
\* executeBitonicSort: step-- down to 0, then stage++ with step = stage
LoopNext(stage, step) ==
    IF step > 0 THEN [stage |-> stage, step |-> step - 1]
    ELSE [stage |-> stage + 1, step |-> stage + 1]

\* a buffer choice that is never swapped
KeptUseBufferA(useA) == useA

\* useBufferA = !useBufferA
NextUseBufferA(useA) == ~useA

\* the uniform values the host loops leave when they end: those of the last
\* pass of the sort
LastUniforms(stage, step, useA) ==
    [stageSize |-> PaddedSize, stepSize |-> 1,
     useBufferA |-> IF (TotalPasses - 1) % 2 = 0 THEN 1 ELSE 0]

\* the uniform values executeBitonicSort sets before it submits the pass of
\* (stage, step)
PassUniforms(stage, step, useA) ==
    [stageSize |-> Shl1(stage + 1), stepSize |-> Shl1(step),
     useBufferA |-> IF useA THEN 1 ELSE 0]

\* the lanes of a bitonic pass that write element k of the output buffer: its
\* own lane, in either branch, and the lane below it whose partner it is
WritersOf(k, p, stepSize) ==
    {i \in Slots(p) : i = k \/ (BitXor(i, stepSize) > i /\ BitXor(i, stepSize) = k)}

\* the index buffer a pass reads and the one it writes under uniforms u
ReadBufferName(u) == IF u.useBufferA = 1 THEN "A" ELSE "B"
WriteBufferName(u) == IF u.useBufferA = 1 THEN "B" ELSE "A"

\* renderer.computeAsync(this.distanceComputeNode): lane i writes element i of
\* indicesA and of the distance buffer
DistancePass ==
    PassEntry("distance", -1, -1, NoUniforms, "-", "A",
              [k \in Slots(PaddedSize) |-> {k}])

\* renderer.computeAsync(passNode) for the pass of (stage, step)
BitonicEntry(stage, step, u, p) ==
    PassEntry("bitonic", stage, step, u, ReadBufferName(u), WriteBufferName(u),
              [k \in Slots(p) |-> WritersOf(k, p, u.stepSize)])

\* sort(renderer, cameraPosition) over the position buffer pos, up to the
\* first bitonic pass: the camera uniform, the distance pass, and the start of
\* executeBitonicSort's loops
SortBeginEffects(cam, pos) ==
    /\ uCameraPos' = cam
    /\ indicesA' = [i \in Slots(PaddedSize) |-> i]
    /\ distances' = [i \in Slots(PaddedSize) |-> DistanceOf(i, pos, cam, sMaxParticles)]
    /\ useBufferA' = TRUE
    /\ sortStage' = 0
    /\ sortStep' = 0
    /\ passesDone' = 0
    /\ sortPC' = IF Log2(PaddedSize) > 0 THEN "passes" ELSE "done"
    /\ UNCHANGED <<sMaxParticles, indicesB, uStageSize, uStepSize, uUseBufferA>>

\* sort(renderer, cameraPosition) called on the sorter
SortBegin(cam) ==
    /\ sortPC \in {"idle", "done"}
    /\ framePC = "idle"
    /\ SortBeginEffects(cam, positions)
    /\ lastOp' = "sort"
    /\ submitted' = <<DistancePass>>
    /\ UNCHANGED <<facadeVars, pipelineVars, providerVars, burstVars, hostVars,
                   deviceVars, lastPass, sinceFilled, minGap, trailVars, framePC, sceneVars>>

\* one iteration of the inner loop of executeBitonicSort: the uniforms, the
\* pass, the buffer swap and the loop counters
BitonicPass ==
    /\ sortPC = "passes"
    /\ LET u == PassUniforms(sortStage, sortStep, useBufferA)
           read == IF u.useBufferA = 1 THEN indicesA ELSE indicesB
       IN  /\ uStageSize' = Shl1(sortStage + 1)
           /\ uStepSize' = Shl1(sortStep)
           /\ uUseBufferA' = IF useBufferA THEN 1 ELSE 0
           /\ submitted' = Append(submitted,
                                  BitonicEntry(sortStage, sortStep, u, PaddedSize))
           /\ \E copyLast \in SUBSET ContendedLanes(read, distances, PaddedSize,
                                                    u.stageSize, u.stepSize) :
                 LET out == BitonicPassOutput(read, distances, PaddedSize,
                                              u.stageSize, u.stepSize, copyLast)
                 IN  IF u.useBufferA = 1
                     THEN indicesB' = out /\ UNCHANGED indicesA
                     ELSE indicesA' = out /\ UNCHANGED indicesB
    /\ useBufferA' = NextUseBufferA(useBufferA)
    /\ passesDone' = passesDone + 1
    /\ sortStage' = LoopNext(sortStage, sortStep).stage
    /\ sortStep' = LoopNext(sortStage, sortStep).step
    /\ sortPC' = IF LoopNext(sortStage, sortStep).stage < Log2(PaddedSize)
                 THEN "passes" ELSE "done"
    /\ lastOp' = "pass"
    /\ UNCHANGED <<sMaxParticles, distances, uCameraPos>>
    /\ UNCHANGED <<facadeVars, pipelineVars, providerVars, burstVars, hostVars,
                   deviceVars, lastPass, sinceFilled, minGap, trailVars, framePC, sceneVars>>

\* the sorter of a system of any capacity whose particles are anywhere
SortConfigs ==
    [maxParticles : 1 .. MaxSortCapacity, lifetime : {2}, emissionRate : {0},
     velocity : {2}, velocityVariation : {1}, emitterSize : {1},
     gravity : {-1}, drag : {0}]

SortInit ==
    \E cfg \in SortConfigs :
        /\ \E pos \in [Slots(cfg.maxParticles) -> 0 .. MaxCoord] : SystemInitAt(cfg, pos)
        /\ SorterInit(cfg.maxParticles)

SortAny == \E cam \in 0 .. MaxCoord : SortBegin(cam)

SortNext == SortAny \/ BitonicPass

SpecSort == SortInit /\ [][SortNext]_vars

\* which buffer getSortedIndicesBuffer / getSortedIndicesStorage report
SortedIndicesName == IF TotalPasses % 2 = 0 THEN "A" ELSE "B"

\* idx holds every index of 0 .. p-1 exactly once
IsPermutation(idx, p) == \A v \in Slots(p) : Cardinality({k \in Slots(p) : idx[k] = v}) = 1

\* C3: after a full sort the buffer getSortedIndicesBuffer returns holds every
\* index of [0, P) exactly once, for every distance assignment and every
\* execution of the lanes of each pass.
C3_SortedIsPermutation ==
    sortPC = "done" => IsPermutation(SortedIndicesBuffer, PaddedSize)

\* C4: after a full sort the index array is ordered by the sort key:
\* dist[idx[k]] <= dist[idx[k+1]] for all adjacent positions.
C4_SortedAscending ==
    sortPC = "done" =>
        \A k \in 0 .. (PaddedSize - 2) :
            distances[SortedIndicesBuffer[k]] <= distances[SortedIndicesBuffer[k + 1]]

\* C5: when the distances are already ascending in index order, a full sort
\* leaves the identity order.
C5_SortIdempotent ==
    ( /\ sortPC = "done"
      /\ \A k \in 0 .. (PaddedSize - 2) : distances[k] <= distances[k + 1] )
    => SortedIndicesBuffer = [i \in Slots(PaddedSize) |-> i]

\* the sorter attached to a system that emits: frames and sorts alternate
LiveSortConfigs ==
    [maxParticles : {2, 3}, lifetime : {2}, emissionRate : {10},
     velocity : {2}, velocityVariation : {1}, emitterSize : {1},
     gravity : {-1}, drag : {0}]

LiveSortInit ==
    \E cfg \in LiveSortConfigs :
        /\ SystemInit(cfg)
        /\ SorterInit(cfg.maxParticles)

\* a frame, between two sorts
LiveSortFrame ==
    /\ sortPC \in {"idle", "done"}
    /\ uTime + 1 <= MaxTime
    /\ \E rp \in [Slots(config.maxParticles) -> RandPosition],
          rv \in [Slots(config.maxParticles) -> RandVelocity] : Update(1, rp, rv)

LiveSortNext == LiveSortFrame \/ SortAny \/ BitonicPass

SpecSortLive == LiveSortInit /\ [][LiveSortNext]_vars

\* lane i of the sorter is a padding lane or the lane of a dead slot
DeadOrPadding(i) ==
    i >= sMaxParticles \/ ~IsAlive(pTime, ages[i], lifetimes[i])

\* C16: dead slots and padding slots receive a sentinel distance, so that in
\* the order of the sort key they are all at one end and none of them is
\* between two live particles.
C16_DeadCollectAtOneEnd ==
    lastOp \in {"sort", "pass"} =>
        /\ \A i \in Slots(PaddedSize) :
              DeadOrPadding(i) => distances[i] \in {Infinity, NegInfinity}
        /\ \A a, b, c \in Slots(PaddedSize) :
              (~DeadOrPadding(a) /\ DeadOrPadding(b) /\ DeadOrPadding(c))
                  => ~(distances[b] < distances[a] /\ distances[a] < distances[c])
        /\ \A a, b, c \in Slots(PaddedSize) :
              (~DeadOrPadding(a) /\ DeadOrPadding(b) /\ ~DeadOrPadding(c))
                  => ~(distances[a] < distances[b] /\ distances[b] < distances[c])

\* the sorter of a system of any capacity up to MaxPassCapacity, all its
\* particles at the origin
PassConfigs ==
    [maxParticles : 1 .. MaxPassCapacity, lifetime : {2}, emissionRate : {0},
     velocity : {2}, velocityVariation : {1}, emitterSize : {1},
     gravity : {-1}, drag : {0}]

PassInit ==
    \E cfg \in PassConfigs :
        /\ SystemInitAt(cfg, [i \in Slots(cfg.maxParticles) |-> 0])
        /\ SorterInit(cfg.maxParticles)

SpecPasses == PassInit /\ [][SortNext]_vars

\* C15: a sort submits exactly log2(P) * (log2(P) + 1) / 2 bitonic passes,
\* and the buffer getSortedIndicesBuffer reports is the one the last pass
\* wrote, or buffer A, which the distance pass initialises, when there is no
\* pass.
C15_PassCountAndParity ==
    sortPC = "done" =>
        /\ passesDone = (Log2(PaddedSize) * (Log2(PaddedSize) + 1)) \div 2
        /\ SortedIndicesName =
              (IF passesDone = 0 THEN "A" ELSE IF uUseBufferA = 1 THEN "B" ELSE "A")
        /\ SortedIndicesBuffer = (IF SortedIndicesName = "A" THEN indicesA ELSE indicesB)

\* a sort of six passes has ended; the last pass read B and wrote A
C15_Witness ==
    /\ sortPC = "done"
    /\ passesDone = 6
    /\ uUseBufferA = 0
    /\ SortedIndicesName = "A"

(***************************************************************************)
(* ComputePipeline.addProvider / removeProvider                            *)
(***************************************************************************)
\* a.priority || 0
EffectivePriority(p) == IF p.priority = <<>> THEN 0 ELSE p.priority[1]

\* p put into an ascending list before the first provider of its priority
RECURSIVE InsertBeforeTies(_, _)
InsertBeforeTies(list, p) ==
    IF list = <<>> THEN <<p>>
    ELSE IF EffectivePriority(Head(list)) >= EffectivePriority(p) THEN <<p>> \o list
    ELSE <<Head(list)>> \o InsertBeforeTies(Tail(list), p)

\* p put into an ascending list behind every provider that does not compare
\* above it: where the stable Array.prototype.sort leaves the pushed element
RECURSIVE InsertByPriority(_, _)
InsertByPriority(list, p) ==
    IF list = <<>> THEN <<p>>
    ELSE IF EffectivePriority(Head(list)) > EffectivePriority(p) THEN <<p>> \o list
    ELSE <<Head(list)>> \o InsertByPriority(Tail(list), p)

\* providers.sort((a, b) => (a.priority || 0) - (b.priority || 0)), stable
RECURSIVE SortByPriority(_)
SortByPriority(list) ==
    IF list = <<>> THEN <<>>
    ELSE InsertByPriority(SortByPriority(SubSeq(list, 1, Len(list) - 1)),
                          list[Len(list)])

\* providers.filter(p => p.name !== name)
RECURSIVE FilterOutName(_, _)
FilterOutName(list, name) ==
    IF list = <<>> THEN <<>>
    ELSE (IF Head(list).name # name THEN <<Head(list)>> ELSE <<>>)
         \o FilterOutName(Tail(list), name)

\* addProvider(provider)
AddProvider(provider) ==
    /\ sysProviders' = Append(sysProviders, [provider EXCEPT !.id = regCount + 1])
    /\ providers' = SortByPriority(Append(providers, [provider EXCEPT !.id = regCount + 1]))
    /\ regCount' = regCount + 1
    /\ dirty' = TRUE
    /\ dirtiedSinceBuild' = TRUE
    /\ changedSinceBuild' = TRUE
    /\ lastPass' = NoPass
    /\ lastOp' = "addProvider"
    /\ UNCHANGED <<updateComputeNode, buildCount, frameLog, sinceFilled, minGap>>
    /\ UNCHANGED <<facadeVars, pipelineVars, burstVars, hostVars, deviceVars, sorterVars,
                   trailVars, frameVars, sceneVars>>

\* removeProvider(name)
RemoveProvider(name) ==
    /\ sysProviders' = FilterOutName(sysProviders, name)
    /\ providers' = FilterOutName(providers, name)
    /\ dirty' = TRUE
    /\ dirtiedSinceBuild' = TRUE
    /\ changedSinceBuild' = (changedSinceBuild \/ FilterOutName(providers, name) # providers)
    /\ lastPass' = NoPass
    /\ lastOp' = "removeProvider"
    /\ UNCHANGED <<updateComputeNode, regCount, buildCount, frameLog, sinceFilled,
                   minGap>>
    /\ UNCHANGED <<facadeVars, pipelineVars, burstVars, hostVars, deviceVars, sorterVars,
                   trailVars, frameVars, sceneVars>>

\* markDirty()
MarkDirty ==
    /\ dirty' = TRUE
    /\ dirtiedSinceBuild' = TRUE
    /\ lastPass' = NoPass
    /\ lastOp' = "markDirty"
    /\ UNCHANGED <<providers, updateComputeNode, regCount, sysProviders, buildCount,
                   frameLog, changedSinceBuild, sinceFilled, minGap>>
    /\ UNCHANGED <<facadeVars, pipelineVars, burstVars, hostVars, deviceVars, sorterVars,
                   trailVars, frameVars, sceneVars>>

\* the part of play(), pause() and stop() that no field of the system but
\* _isPlaying and _isPaused sees
SetPlayState(playing, paused, op) ==
    /\ isPlaying' = playing
    /\ isPaused' = paused
    /\ lastPass' = NoPass
    /\ lastOp' = op
    /\ UNCHANGED <<config, uTime, emissionAccumulator, nextSpawnIndex, pipelineVars,
                   providerVars, burstVars, hostVars, deviceVars, sinceFilled,
                   minGap, sorterVars, trailVars, frameVars>>

\* play()
Play == SetPlayState(TRUE, FALSE, "play") /\ UNCHANGED sceneVars

\* pause()
Pause == SetPlayState(isPlaying, TRUE, "pause") /\ UNCHANGED sceneVars

\* stop(): the loop over the slots has an empty body
Stop == SetPlayState(FALSE, FALSE, "stop") /\ UNCHANGED sceneVars

\* the providers that get registered: a force, a velocity clamp, a second
\* force of the first one's priority, a floor without a priority, and a
\* velocity modifier of the first one's priority
ProviderPool ==
    { [name |-> "Wind", priority |-> <<10>>, id |-> 0, force |-> <<1>>,
       velocityModifier |-> <<>>, positionModifier |-> <<>>,
       onSystemUpdate |-> TRUE],
      [name |-> "Bounce", priority |-> <<10>>, id |-> 0, force |-> <<>>,
       velocityModifier |-> <<4>>, positionModifier |-> <<>>,
       onSystemUpdate |-> FALSE],
      [name |-> "Clamp", priority |-> <<20>>, id |-> 0, force |-> <<>>,
       velocityModifier |-> <<3>>, positionModifier |-> <<>>,
       onSystemUpdate |-> TRUE],
      [name |-> "Lift", priority |-> <<10>>, id |-> 0, force |-> <<2>>,
       velocityModifier |-> <<>>, positionModifier |-> <<>>,
       onSystemUpdate |-> FALSE],
      [name |-> "Floor", priority |-> <<>>, id |-> 0, force |-> <<>>,
       velocityModifier |-> <<>>, positionModifier |-> <<0>>,
       onSystemUpdate |-> FALSE] }

ProviderNames == {p.name : p \in ProviderPool}

ProviderConfigs ==
    [maxParticles : {1}, lifetime : {2}, emissionRate : {10}, velocity : {2},
     velocityVariation : {1}, emitterSize : {1}, gravity : {-1}, drag : {0, 1}]

ProvidersInit ==
    /\ \E cfg \in ProviderConfigs : SystemInit(cfg)
    /\ SorterInit(1)

AddAny ==
    \E provider \in ProviderPool :
        /\ Len(providers) < MaxProviders
        /\ regCount < MaxRegistrations
        /\ AddProvider(provider)

RemoveAny == \E name \in ProviderNames : RemoveProvider(name)

UpdateFrame ==
    \E d \in {1} :
        /\ uTime + d <= MaxTime
        /\ \E rp \in [Slots(config.maxParticles) -> RandPosition],
              rv \in [Slots(config.maxParticles) -> RandVelocity] : Update(d, rp, rv)

ProvidersNext == AddAny \/ RemoveAny \/ UpdateFrame

SpecProviders == ProvidersInit /\ [][ProvidersNext]_vars

\* C10: after any sequence of addProvider/removeProvider calls the provider
\* list is in ascending priority order with ties in registration order, and
\* the program a pass runs has the providers folded in in exactly that order.
C10_ProvidersOrdered ==
    /\ \A a, b \in 1 .. Len(providers) :
          a < b =>
             \/ EffectivePriority(providers[a]) < EffectivePriority(providers[b])
             \/ /\ EffectivePriority(providers[a]) = EffectivePriority(providers[b])
                /\ providers[a].id < providers[b].id
    /\ lastPass.ran => lastPass.program = providers
    /\ (~dirty /\ updateComputeNode # <<>>) => updateComputeNode[1] = providers

\* a pass has run with two providers, the one registered later first
C10_Witness ==
    /\ lastPass.ran
    /\ Len(providers) = 2
    /\ providers[1].id > providers[2].id
    /\ lastPass.program = providers

\* the providers of list that have a velocity modifier, by place in list
Overriders(list) == {k \in 1 .. Len(list) : list[k].velocityModifier # <<>>}

\* the slots the last pass found alive
LiveSlots ==
    {i \in Slots(config.maxParticles) :
        IsAlive(lastPass.time, lastPass.spawned[i].spawnTime, lastPass.spawned[i].lifetime)}

\* the velocity that left the override step of the last pass, read back from
\* the velocity the pass stored: drag multiplies it by 1 - drag * delta
LeftOverrideStep(i, v) ==
    velocities[i] = v * (1 - config.drag * lastPass.delta)

\* C11 as stated: the velocity modifier of the provider registered last
\* determines the velocity that leaves the override step, whatever the
\* priorities.
C11_LastRegisteredWins ==
    (lastPass.ran /\ Overriders(lastPass.program) # {}) =>
        \A k \in Overriders(lastPass.program) :
            (\A j \in Overriders(lastPass.program) :
                lastPass.program[j].id <= lastPass.program[k].id)
            => \A i \in LiveSlots :
                  LeftOverrideStep(i, lastPass.program[k].velocityModifier[1])

\* C11 amended: the velocity modifiers are applied in the order of the
\* provider list (ascending priority, ties in registration order), each
\* overwriting the running velocity, so the modifier of the last provider of
\* that list that has one determines the velocity leaving the override step.
C11_LastInListWins ==
    (lastPass.ran /\ Overriders(lastPass.program) # {}) =>
        \A k \in Overriders(lastPass.program) :
            (\A j \in Overriders(lastPass.program) : j <= k)
            => \A i \in LiveSlots :
                  LeftOverrideStep(i, lastPass.program[k].velocityModifier[1])

\* a pass with drag 0 ran over a live slot with two velocity modifiers
\* folded in, the one registered first applied last
C11_Witness ==
    /\ lastPass.ran
    /\ config.drag = 0
    /\ LiveSlots # {}
    /\ Cardinality(Overriders(lastPass.program)) = 2
    /\ Len(lastPass.program) = 2
    /\ lastPass.program[1].id > lastPass.program[2].id
    /\ velocities[0] = lastPass.program[2].velocityModifier[1]

\* C12: with provider A of priority 10 setting the velocity to v1 and
\* provider B of priority 20 overriding it to v2, the velocity of every live
\* slot after the pass is exactly v2, for either registration order and for
\* the configured drag and delta.
C12_OverrideIsFinalVelocity ==
    ( /\ lastPass.ran
      /\ Len(lastPass.program) = 2
      /\ Overriders(lastPass.program) = {1, 2}
      /\ EffectivePriority(lastPass.program[1]) = 10
      /\ EffectivePriority(lastPass.program[2]) = 20 )
    => \A i \in LiveSlots : velocities[i] = lastPass.program[2].velocityModifier[1]

(***************************************************************************)
(* The host side of a frame: provider callbacks, the program cache,        *)
(* play / pause / stop                                                     *)
(***************************************************************************)
\* the providers registered here: one with onSystemUpdate, one without
HostPool == {p \in ProviderPool : p.name \in {"Wind", "Floor"}}

HostAdd ==
    \E provider \in HostPool :
        /\ Len(providers) < MaxProviders
        /\ regCount < MaxRegistrations
        /\ AddProvider(provider)

HostRemove == \E name \in {p.name : p \in HostPool} : RemoveProvider(name)

HostNext ==
    HostAdd \/ HostRemove \/ UpdateFrame \/ MarkDirty \/ Play \/ Pause \/ Stop

SpecHost == ProvidersInit /\ [][HostNext]_vars

\* how often v occurs in seq
Count(seq, v) == Cardinality({k \in 1 .. Len(seq) : seq[k] = v})

\* C13: in an update frame every registered provider's onSystemUpdate runs
\* exactly once, before the frame's compute pass is submitted; in a frame
\* skipped because the system is paused or stopped it does not run.
C13_HostUpdateOncePerFrame ==
    lastOp = "update" =>
        IF lastPass.ran
        THEN /\ Count(frameLog, 0) = 1
             /\ frameLog[Len(frameLog)] = 0
             /\ \A k \in 1 .. Len(sysProviders) :
                   sysProviders[k].onSystemUpdate
                       => Count(frameLog, sysProviders[k].id) = 1
        ELSE frameLog = <<>>

\* C14 as stated: execute rebuilds the program only when a provider was
\* added or removed since the previous build, frames without such a change
\* reuse the program object, and after a change the next execute rebuilds.
C14_RebuildOnlyOnListChange ==
    lastPass.ran =>
        /\ lastPass.rebuilt <=> (lastPass.first \/ lastPass.changed)
        /\ lastPass.build = (IF lastPass.rebuilt THEN lastPass.built + 1
                             ELSE lastPass.built)

\* C14 amended: execute rebuilds the program exactly when none was built yet
\* or addProvider, removeProvider or markDirty was called since the previous
\* build, whether or not the call changed the provider list; other frames
\* reuse the program object, and the program in use when no such call is
\* pending is the one built from the current provider list.
C14_RebuildIffDirtied ==
    /\ lastPass.ran =>
          /\ lastPass.rebuilt <=> (lastPass.first \/ lastPass.dirtied)
          /\ lastPass.build = (IF lastPass.rebuilt THEN lastPass.built + 1
                               ELSE lastPass.built)
          /\ lastPass.program = providers
    /\ (updateComputeNode # <<>> /\ ~dirtiedSinceBuild) => updateComputeNode[1] = providers

\* a frame reused the program object that an earlier frame had rebuilt for the
\* one provider registered
C14_Witness ==
    /\ lastPass.ran
    /\ ~lastPass.rebuilt
    /\ lastPass.build >= 2
    /\ Len(providers) = 1
    /\ regCount = 1

(***************************************************************************)
(* The burst scenario: burst(10) on a fresh store at t = 0, lifetime 2 s   *)
(***************************************************************************)
BurstScenarioConfigs ==
    [maxParticles : {12}, lifetime : {Seconds(2)}, emissionRate : {0},
     velocity : {2}, velocityVariation : {1}, emitterSize : {1},
     gravity : {-1}, drag : {0}]

BurstInit ==
    /\ \E cfg \in BurstScenarioConfigs : SystemInit(cfg)
    /\ SorterInit(1)

\* two draws of Math.random(): rand4 * variation = -0.4 s and +0.4 s
ScenarioOffsets == {1 - SpawnLifetimeVariation, SpawnLifetimeVariation - 1}

ScenarioBurst ==
    /\ uTime = 0
    /\ activeCount = 0
    /\ \E rl \in [0 .. 9 -> ScenarioOffsets], rv \in [0 .. 9 -> RandVelocity] :
          Burst(10, rl, rv)

ScenarioUpdate ==
    \E d \in {3, 6} :
        /\ uTime + d <= MaxBurstTime
        /\ \E rp \in [Slots(config.maxParticles) -> RandPosition],
              rv \in [Slots(config.maxParticles) -> RandVelocity] : Update(d, rp, rv)

BurstNext == ScenarioBurst \/ ScenarioUpdate

SpecBurst == BurstInit /\ [][BurstNext]_vars

\* C7: burst(10) on a fresh store at t = 0 with lifetime 2 s spawns exactly
\* slots 0-9 with spawnTime 0; at t = 1.5 s all ten are alive and at
\* t = 2.1 s all ten are dead.
C7_BurstScenario ==
    (activeCount = 10 /\ lastOp = "update") =>
        /\ \A i \in Slots(config.maxParticles) : (ages[i] = 0) <=> (i \in 0 .. 9)
        /\ uTime = 15 => \A i \in 0 .. 9 : IsAlive(pTime, ages[i], lifetimes[i])
        /\ uTime = 21 => \A i \in 0 .. 9 : ~IsAlive(pTime, ages[i], lifetimes[i])

(***************************************************************************)
(* The emission scenario: capacity 100, 50 particles/s, lifetime 2 s,      *)
(* 40 frames of 0.1 s                                                      *)
(***************************************************************************)
EmitScenarioConfigs ==
    [maxParticles : {100}, lifetime : {Seconds(1), Seconds(2)},
     emissionRate : {10, 25, 50}, velocity : {2}, velocityVariation : {1},
     emitterSize : {1}, gravity : {-1}, drag : {0}]

EmitInit ==
    /\ \E cfg \in EmitScenarioConfigs : SystemInit(cfg)
    /\ SorterInit(1)

ScenarioFrame ==
    /\ uTime < MaxFrames
    /\ \E rp \in [Slots(config.maxParticles) -> RandPosition],
          rv \in [Slots(config.maxParticles) -> RandVelocity] : Update(1, rp, rv)

SpecEmit == EmitInit /\ [][ScenarioFrame]_vars

AliveCount ==
    Cardinality({i \in Slots(config.maxParticles) : IsAlive(pTime, ages[i], lifetimes[i])})

IsEmitScenario ==
    /\ config.maxParticles = 100
    /\ config.emissionRate = 50
    /\ config.lifetime = Seconds(2)

\* C8: with capacity 100, 50 particles/s, lifetime 2 s and frames of 0.1 s,
\* from the frame at which the ring has filled (100 particles emitted) on,
\* through frame 40, the number of alive slots is min(50 * 2, 100) = 100.
C8_SteadyState ==
    (IsEmitScenario /\ uTime * config.emissionRate >= 10 * config.maxParticles)
        => AliveCount = Min((config.emissionRate * config.lifetime) \div 10,
                            config.maxParticles)

\* the scenario's 40th frame has run with every slot alive
C8_Witness == IsEmitScenario /\ uTime = 40 /\ lastPass.ran /\ AliveCount = 100

(***************************************************************************)
(* A system with ribbon trails: frames of 0.1 s and 0.2 s                  *)
(***************************************************************************)
TrailSettings ==
    [enabled : {TRUE}, segments : 1 .. MaxSegments,
     updateInterval : 1 .. MaxTrailInterval]

TrailConfigs ==
    [maxParticles : 1 .. MaxTrailCapacity, lifetime : {Seconds(1)},
     emissionRate : {2}, velocity : {2}, velocityVariation : {1},
     emitterSize : {1}, gravity : {-1}, drag : {0}, trail : TrailSettings]

TrailSpecInit ==
    /\ \E cfg \in TrailConfigs : SystemInit(cfg)
    /\ SorterInit(1)

TrailFrame ==
    \E d \in {1, 2} :
        /\ uTime + d <= MaxTrailTime
        /\ \E rp \in [Slots(config.maxParticles) -> RandPosition],
              rv \in [Slots(config.maxParticles) -> RandVelocity] : Update(d, rp, rv)

SpecTrail == TrailSpecInit /\ [][TrailFrame]_vars

TrailOn == trailRenderer # <<>>
Segments == trailRenderer[1].segments

\* the k-th most recent sample of the log, k = 0 for the latest
Recent(k) == sampleLog[Len(sampleLog) - k]

\* C17 as stated: once a particle has been sampled segments + 1 times, its
\* head index is what it was before the first of those samples.
C17_HeadReturnsAfterOneMore ==
    (TrailOn /\ Len(sampleLog) = Segments + 1)
        => \A i \in Slots(config.maxParticles) :
              trailHeadIndices[i] = sampleLog[1].head[i]

\* C17: sampling a particle segments times returns its head index to the value
\* it had before the first of those samples; after segments + 1 samples the
\* head is one ring step past that value.
C17_HeadReturnsAfterSegments ==
    TrailOn
        => \A i \in Slots(config.maxParticles) :
              /\ Len(sampleLog) >= Segments
                    => trailHeadIndices[i] = Recent(Segments - 1).head[i]
              /\ Len(sampleLog) = Segments + 1
                    => trailHeadIndices[i] = (sampleLog[1].head[i] + 1) % Segments

\* a ring of at least two cells sampled segments + 1 times: the head is back
\* where it was segments samples ago and not where it was before the first
C17_Witness ==
    /\ TrailOn
    /\ Segments >= 2
    /\ Len(sampleLog) = Segments + 1
    /\ trailHeadIndices[0] = sampleLog[2].head[0]
    /\ trailHeadIndices[0] # sampleLog[1].head[0]

\* how many of the logged samples wrote ring cell 0 of particle i
WritesOfCellZero(i) ==
    Cardinality({k \in 1 .. Len(sampleLog) :
                    sampleLog[k].at[i] = StorageIdx(i, 0, Segments)})

\* C18 as stated: over segments + 1 consecutive samples of a particle that
\* start from head = 0, ring cell 0 of its region is overwritten exactly once.
C18_CellZeroWrittenOnce ==
    (TrailOn /\ Len(sampleLog) = Segments + 1)
        => \A i \in Slots(config.maxParticles) :
              sampleLog[1].head[i] = 0 => WritesOfCellZero(i) = 1

\* C18: over segments + 1 consecutive samples of a particle that start from
\* head = 0, ring cell 0 of its region is overwritten exactly once when the
\* ring has at least two cells, and by every one of the samples when it has one.
C18_CellZeroWrittenOncePerLap ==
    (TrailOn /\ Len(sampleLog) = Segments + 1)
        => \A i \in Slots(config.maxParticles) :
              sampleLog[1].head[i] = 0
                 => WritesOfCellZero(i) = (IF Segments = 1 THEN 2 ELSE 1)

\* segments + 1 samples from head = 0 of a ring of at least two cells, the
\* segments-th of which wrote cell 0
C18_Witness ==
    /\ TrailOn
    /\ Segments >= 2
    /\ Len(sampleLog) = Segments + 1
    /\ sampleLog[1].head[0] = 0
    /\ sampleLog[Segments].at[0] = StorageIdx(0, 0, Segments)

\* the ring of particle i holds the last segments samples, the k-th most
\* recent one at ring index (head - k) mod segments
RingHoldsLastSamples(i) ==
    \A k \in 0 .. (Segments - 1) :
        trailPositions[StorageIdx(i, (trailHeadIndices[i] - k) % Segments, Segments)]
            = Recent(k).pos[i]

\* C19: once a particle has been sampled at least segments times, its ring
\* holds exactly the last segments sampled positions, the k-th most recent at
\* ring index (head - k) mod segments, and the oldest of them, segments - 1
\* steps behind head, is what the ribbon reads for its last point.
C19_RingAndRibbon ==
    (TrailOn /\ sampleCount >= Segments)
        => \A i \in Slots(config.maxParticles) :
              /\ RingHoldsLastSamples(i)
              /\ RibbonPoint(i, Segments - 1) = Recent(Segments - 1).pos[i]

\* C20: while no frame delta exceeded updateInterval, the number of samples
\* taken by simulation time T is floor(T / updateInterval), and no update
\* call takes more than one sample.
C20_SamplesAtFixedInterval ==
    (TrailOn /\ ~longFrame)
        => /\ sampleCount = uTime \div trailRenderer[1].updateInterval
           /\ samplesTaken <= 1

(***************************************************************************)
(* A whole frame: update() of a system that may have a sorter and a trail  *)
(* renderer, with play(), pause() and stop() between frames                *)
(***************************************************************************)
\* if (this.config.sorted)
HasSorter(cfg) == "sorted" \in DOMAIN cfg /\ cfg.sorted

FrameConfigs ==
    [maxParticles : 1 .. MaxFrameCapacity, lifetime : {2}, emissionRate : {0, 5, 15},
     velocity : {2}, velocityVariation : {1}, emitterSize : {1}, gravity : {-1},
     drag : {0}, sorted : BOOLEAN,
     trail : [enabled : BOOLEAN, segments : {2}, updateInterval : {2}]]

FrameInit ==
    \E cfg \in FrameConfigs :
        /\ SystemInit(cfg)
        /\ SorterInit(cfg.maxParticles)

\* update(renderer, deltaTime, camera) up to the first bitonic pass of its
\* sorter, or to its end when the system has no sorter or does not run
FrameBegin ==
    /\ framePC = "idle"
    /\ sortPC \in {"idle", "done"}
    /\ \E d \in {1, 2} :
          /\ uTime + d <= MaxFrameTime
          /\ \E rp \in [Slots(config.maxParticles) -> RandPosition],
                rv \in [Slots(config.maxParticles) -> RandVelocity] :
                IF Skips(isPaused, isPlaying) THEN SkippedUpdate
                ELSE IF HasSorter(config)
                THEN RunUpdateWith(d, rp, rv,
                                   /\ SortBeginEffects(0, positions')
                                   /\ submitted' = <<UpdatePass, DistancePass>>
                                   /\ framePC' = "sort",
                                   UNCHANGED trailVars)
                ELSE RunUpdate(d, rp, rv)

\* the rest of update() once the sorter's passes are submitted: STEP 3
FrameEnd ==
    /\ framePC = "sort"
    /\ sortPC = "done"
    /\ TrailStep(uDelta, uTime, positions)
    /\ submitted' = submitted \o TrailSubmits(uTime)
    /\ framePC' = "idle"
    /\ lastOp' = "update"
    /\ UNCHANGED <<facadeVars, pipelineVars, providerVars, burstVars, hostVars,
                   deviceVars, lastPass, sinceFilled, minGap, sorterVars, sceneVars>>

\* play(), pause() and stop() are called between two update calls
FramePlay == framePC = "idle" /\ Play
FramePause == framePC = "idle" /\ Pause
FrameStop == framePC = "idle" /\ Stop

FrameNext ==
    FrameBegin \/ BitonicPass \/ FrameEnd \/ FramePlay \/ FramePause \/ FrameStop

SpecFrame == FrameInit /\ [][FrameNext]_vars

\* where a pass stands in the order of a frame
PassRank(e) ==
    CASE e.pass = "update" -> 0
      [] e.pass = "distance" -> 1
      [] e.pass = "bitonic" -> 2
      [] e.pass = "trail" -> 3

\* the update call has returned
FrameDone == framePC = "idle" /\ lastOp = "update" /\ submitted # <<>>

PassesNamed(name) == {k \in 1 .. Len(submitted) : submitted[k].pass = name}

\* C21: within one update call the passes are submitted in the order update
\* program, sort distance pass, the bitonic passes by ascending stage and
\* within a stage descending step, trail sample; when the call has returned
\* the update program was submitted once and first, and a system with a
\* sorter has submitted the distance pass and every bitonic pass.
C21_PassOrder ==
    /\ \A j \in 1 .. Len(submitted), k \in 1 .. Len(submitted) :
          j < k => PassRank(submitted[j]) <= PassRank(submitted[k])
    /\ \A k \in PassesNamed("bitonic") :
          IF submitted[k - 1].pass = "bitonic"
          THEN IF submitted[k - 1].step > 0
               THEN /\ submitted[k].stage = submitted[k - 1].stage
                    /\ submitted[k].step = submitted[k - 1].step - 1
               ELSE /\ submitted[k].stage = submitted[k - 1].stage + 1
                    /\ submitted[k].step = submitted[k].stage
          ELSE /\ submitted[k - 1].pass = "distance"
               /\ submitted[k].stage = 0
               /\ submitted[k].step = 0
    /\ FrameDone =>
          /\ PassesNamed("update") = {1}
          /\ Cardinality(PassesNamed("trail")) <= 1
          /\ HasSorter(config) =>
                /\ PassesNamed("distance") = {2}
                /\ Cardinality(PassesNamed("bitonic")) = TotalPasses

\* a finished frame of a sorted system of padded size 4 with a trail: update,
\* distance, three bitonic passes, trail sample
C21_Witness ==
    /\ FrameDone
    /\ HasSorter(config)
    /\ PaddedSize = 4
    /\ Len(submitted) = 6
    /\ submitted[5].stage = 1
    /\ submitted[5].step = 0
    /\ submitted[6].pass = "trail"

(***************************************************************************)
(* Bursts of any size, up to more than IndirectRenderer.update emits in    *)
(* one call, between frames                                                *)
(***************************************************************************)
QueueConfigs ==
    [maxParticles : 1 .. MaxQueueCapacity, lifetime : {2}, emissionRate : {0, 15},
     velocity : {2}, velocityVariation : {1}, emitterSize : {1}, gravity : {-1},
     drag : {0}]

\* the burst counts explored: none, one, a ring and a half, the most one call
\* emits, one more, and more than twice that
QueueCounts == {0, 1, 3, EmissionLimit, EmissionLimit + 1, 2 * EmissionLimit + 1}

QueueInit ==
    /\ \E cfg \in QueueConfigs : SystemInit(cfg)
    /\ SorterInit(1)

QueueBurst ==
    /\ emitQueue <= MaxCarry
    /\ \E c \in QueueCounts :
          \E rl \in [0 .. (2 * config.maxParticles) -> BurstOffsets],
             rv \in [0 .. (2 * config.maxParticles) -> RandVelocity] : Burst(c, rl, rv)

QueueFrame ==
    /\ uTime + 1 <= MaxQueueTime
    /\ \E rp \in [Slots(config.maxParticles) -> RandPosition],
          rv \in [Slots(config.maxParticles) -> RandVelocity] : Update(1, rp, rv)

QueueNext == QueueBurst \/ QueueFrame \/ Render

SpecQueue == QueueInit /\ [][QueueNext]_vars

\* C22: after burst(c) returns, for any c >= 0, exactly c spawns have been
\* performed by it and nothing of the request remains queued for a later
\* burst or frame.
C22_BurstHonoredInFull ==
    lastOp = "burst" => (burstExcess = 0 /\ emitQueue = 0)

(***************************************************************************)
(* new GPUParticleSystem(config) for any capacity, zero and negative ones   *)
(* included                                                                *)
(***************************************************************************)
\* new Float32Array(length) / new Uint32Array(length): a RangeError for a
\* negative length, an empty array for zero
TypedArrayThrows(length) == length < 0

\* the item sizes of the attributes StorageManager allocates
StorageItemSizes == {1, 3, 4}

\* StorageManager constructor: no test of maxParticles; it throws only where
\* an allocation does
StorageManagerThrows(maxParticles) ==
    \E itemSize \in StorageItemSizes : TypedArrayThrows(maxParticles * itemSize)

\* GPUSorter constructor: no test of maxParticles either
GPUSorterThrows(maxParticles) == TypedArrayThrows(NextPowerOf2(maxParticles))

\* GPUParticleSystem constructor: applyDefaults, then the StorageManager,
\* then (initializeFeatures) the sorter of a sorted system
ConstructorThrows(cfg) ==
    \/ StorageManagerThrows(cfg.maxParticles)
    \/ HasSorter(cfg) /\ GPUSorterThrows(cfg.maxParticles)

\* the mutant: a constructor that tests the capacity first
ValidatingConstructorThrows(cfg) == cfg.maxParticles <= 0

ConstructConfigs ==
    [maxParticles : (0 - 1) .. MaxConstructCapacity, lifetime : {2},
     emissionRate : {0, 15}, velocity : {2}, velocityVariation : {1},
     emitterSize : {1}, gravity : {-1}, drag : {0}, sorted : BOOLEAN]

ConstructInit ==
    \E cfg \in ConstructConfigs :
        /\ SystemInitWith(cfg, InitialPositions(cfg.maxParticles),
                          IF ConstructorThrows(cfg) THEN "threw" ELSE "idle")
        /\ SorterInit(IF cfg.maxParticles < 0 THEN 0 ELSE cfg.maxParticles)

\* the calls made on a system of positive capacity once it exists
ConstructFrame ==
    /\ framePC = "idle"
    /\ config.maxParticles > 0
    /\ uTime + 1 <= MaxConstructTime
    /\ \E rp \in [Slots(config.maxParticles) -> RandPosition],
          rv \in [Slots(config.maxParticles) -> RandVelocity] : Update(1, rp, rv)

ConstructBurst ==
    /\ framePC = "idle"
    /\ config.maxParticles > 0
    /\ \E c \in 0 .. MaxConstructBurst :
          \E rl \in [0 .. (c - 1) -> BurstOffsets],
             rv \in [0 .. (c - 1) -> RandVelocity] : Burst(c, rl, rv)

ConstructNext == ConstructFrame \/ ConstructBurst

SpecConstruct == ConstructInit /\ [][ConstructNext]_vars

\* C23: a system object exists (its constructor returned) only with a
\* positive capacity: construction with zero or negative maxParticles throws.
C23_NoUnusableCapacity ==
    config.maxParticles <= 0 => framePC = "threw"

(***************************************************************************)
(* Providers that break the provider contract: here a provider record has   *)
(* one more field, throws, telling whether its getForceNode throws          *)
(***************************************************************************)
Faulty(p) == "throws" \in DOMAIN p /\ p.throws

HasFaulty(list) == \E k \in 1 .. Len(list) : Faulty(list[k])

FaultPool ==
    { [name |-> "Wind", priority |-> <<10>>, id |-> 0, force |-> <<1>>,
       velocityModifier |-> <<>>, positionModifier |-> <<>>,
       onSystemUpdate |-> TRUE, throws |-> FALSE],
      [name |-> "Broken", priority |-> <<10>>, id |-> 0, force |-> <<0>>,
       velocityModifier |-> <<>>, positionModifier |-> <<>>,
       onSystemUpdate |-> FALSE, throws |-> TRUE],
      [name |-> "Floor", priority |-> <<>>, id |-> 0, force |-> <<>>,
       velocityModifier |-> <<>>, positionModifier |-> <<0>>,
       onSystemUpdate |-> FALSE, throws |-> FALSE] }

\* where the exception of a node function surfaces: Fn() may run its
\* callback when buildUpdateComputeNode calls computeFn() ("build": execute
\* and update throw at line 301), or when the renderer compiles the node
\* inside computeAsync ("compile": the promise, which nobody awaits, rejects)
FaultOutcomes == {"build", "compile"}

\* update(renderer, deltaTime, camera) of a playing system whose program to
\* run folds in a provider that throws: the host half of update and execute
\* runs, no update pass runs on the device
FaultyUpdate(delta, outcome) ==
    LET n == config.maxParticles
        acc == emissionAccumulator + config.emissionRate * delta
        toSpawn == IF config.emissionRate > 0 THEN WholeParticles(acc) ELSE 0
        count == IF toSpawn > 0 THEN toSpawn ELSE uSpawnCount
        offset == IF toSpawn > 0 THEN nextSpawnIndex ELSE uSpawnOffset
        rebuild == NeedsRebuild(dirty, updateComputeNode)
        stored == rebuild /\ outcome = "compile"
    IN  /\ uTime' = uTime + delta
        /\ emissionAccumulator' =
              IF config.emissionRate > 0 THEN acc - 10 * toSpawn
              ELSE emissionAccumulator
        /\ nextSpawnIndex' =
              IF toSpawn > 0 THEN AdvanceCursor(nextSpawnIndex, toSpawn, n)
              ELSE nextSpawnIndex
        /\ uDelta' = delta
        /\ pTime' = PipelineTime(pTime, delta)
        /\ uSpawnOffset' = offset
        /\ uSpawnCount' = IF rebuild /\ outcome = "build" THEN count ELSE 0
        /\ dirty' = IF stored THEN FALSE ELSE dirty
        /\ updateComputeNode' =
              IF stored THEN <<BuildUpdateComputeNode(providers)>>
              ELSE updateComputeNode
        /\ buildCount' = IF stored THEN buildCount + 1 ELSE buildCount
        /\ frameLog' = HostUpdates(sysProviders) \o HostUpdates(providers)
        /\ dirtiedSinceBuild' = (dirtiedSinceBuild /\ ~stored)
        /\ changedSinceBuild' = (changedSinceBuild /\ ~stored)
        /\ lastPass' = NoPass
        /\ lastOp' = "update"
        /\ submitted' = <<>>
        /\ minGap' = n
        /\ UNCHANGED <<config, isPlaying, isPaused, providers, regCount,
                       sysProviders, burstVars, hostVars, deviceVars,
                       sinceFilled, sorterVars, trailVars, framePC, sceneVars>>

FaultConfigs ==
    [maxParticles : {1, 2}, lifetime : {2}, emissionRate : {10}, velocity : {2},
     velocityVariation : {1}, emitterSize : {1}, gravity : {-1}, drag : {0}]

FaultInit ==
    /\ \E cfg \in FaultConfigs : SystemInit(cfg)
    /\ SorterInit(1)

FaultAdd ==
    \E provider \in FaultPool :
        /\ Len(providers) < MaxFaultProviders
        /\ regCount < MaxFaultRegistrations
        /\ AddProvider(provider)

FaultRemove == \E provider \in FaultPool : RemoveProvider(provider.name)

\* a frame whose program is free of faulty providers
FaultFreeFrame ==
    /\ uTime + 1 <= MaxFaultTime
    /\ ~HasFaulty(IF NeedsRebuild(dirty, updateComputeNode) THEN providers
                  ELSE updateComputeNode[1])
    /\ \E rp \in [Slots(config.maxParticles) -> RandPosition],
          rv \in [Slots(config.maxParticles) -> RandVelocity] : Update(1, rp, rv)

\* a frame whose program folds in a faulty provider
FaultFrame ==
    /\ uTime + 1 <= MaxFaultTime
    /\ HasFaulty(IF NeedsRebuild(dirty, updateComputeNode) THEN providers
                 ELSE updateComputeNode[1])
    /\ \E outcome \in FaultOutcomes : FaultyUpdate(1, outcome)

FaultNext == FaultAdd \/ FaultRemove \/ FaultFreeFrame \/ FaultFrame

SpecFaults == FaultInit /\ [][FaultNext]_vars

\* C24: a provider whose node function throws is never in the provider list
\* nor in the built program, and every update call of the (playing) system
\* runs its update pass.
C24_FaultyProviderRejected ==
    /\ ~HasFaulty(providers)
    /\ updateComputeNode # <<>> => ~HasFaulty(updateComputeNode[1])
    /\ lastOp = "update" => lastPass.ran

\* the simulation state an update call advances: time, accumulator, cursor,
\* spawn queue, device buffers, sorter and trail
SimulationState ==
    <<uTime, emissionAccumulator, nextSpawnIndex, pipelineVars, deviceVars,
      sorterVars, trailVars>>

\* C25: an update call made while the system is paused or stopped changes
\* nothing of the simulation state and submits no pass; play() leaves the
\* simulation state as it is, and the first update after it advances the
\* time from the value it had when the system was paused.
C25_PausedUpdateChangesNothing ==
    [][/\ (framePC = "idle" /\ (isPaused \/ ~isPlaying) /\ lastOp' = "update")
            => (UNCHANGED SimulationState /\ submitted' = <<>>)
       /\ lastOp' = "play"
            => (UNCHANGED SimulationState /\ isPlaying' /\ ~isPaused')
       /\ (framePC = "idle" /\ ~isPaused /\ isPlaying /\ lastOp' = "update")
            => (uTime' = uTime + uDelta' /\ pTime' = pTime + uDelta')]_vars

\* an update call was skipped by a paused system whose time had advanced
C25_Witness ==
    /\ lastOp = "update"
    /\ isPaused
    /\ isPlaying
    /\ uTime > 0
    /\ submitted = <<>>

\* C26: when stop() has returned no slot of the store is alive.
C26_StopKillsAll ==
    lastOp = "stop" =>
        \A i \in Slots(config.maxParticles) : ~IsAlive(uTime, ages[i], lifetimes[i])

\* the bitonic passes among the passes submitted so far
BitonicPasses == {k \in 1 .. Len(submitted) : submitted[k].pass = "bitonic"}

\* C27: in every bitonic pass each element of the output buffer is written
\* by exactly one lane, the lower lane of its pair.
C27_SingleWriterPerElement ==
    \A k \in BitonicPasses :
        \A e \in DOMAIN submitted[k].writers :
            LET partner == BitXor(e, submitted[k].uniforms.stepSize)
            IN  submitted[k].writers[e] = {IF partner > e THEN e ELSE partner}

\* C28: every bitonic pass reads one index buffer and writes the other; the
\* first pass of a sort reads buffer A, which the distance pass submitted
\* before it filled with the identity; each later pass reads the buffer the
\* pass before it wrote.
C28_PingPong ==
    /\ \A k \in BitonicPasses :
          /\ submitted[k].reads # submitted[k].writes
          /\ {submitted[k].reads, submitted[k].writes} = {"A", "B"}
          /\ k > 1
          /\ submitted[k].reads = submitted[k - 1].writes
          /\ submitted[k - 1].pass \in {"distance", "bitonic"}
    /\ (sortPC = "passes" /\ passesDone = 0) =>
          indicesA = [i \in Slots(PaddedSize) |-> i]

\* a sort has submitted three bitonic passes
C28_Witness ==
    /\ sortPC = "done"
    /\ Cardinality(BitonicPasses) >= 3

\* the bitonic passes submitted before the k-th submitted pass
BitonicBefore(k) == {j \in BitonicPasses : j < k}

C30_SpawnRangeAppliedOnce ==
    [][(framePC = "idle" /\ lastOp' = "update" /\ lastPass'.ran) =>
          LET acc == emissionAccumulator + config.emissionRate * uDelta'
              toSpawn == IF config.emissionRate > 0 THEN WholeParticles(acc) ELSE 0
          IN  /\ lastPass'.count = toSpawn
              /\ toSpawn > 0 => lastPass'.offset = nextSpawnIndex
              /\ uSpawnCount' = 0]_vars

\* an update call that queued nothing has run its pass after an earlier call
\* had queued a range
C30_Witness ==
    /\ lastOp = "update"
    /\ framePC = "idle"
    /\ lastPass.ran
    /\ lastPass.count = 0
    /\ config.emissionRate > 0
    /\ nextSpawnIndex > 0

\* C31: the upload that follows a burst leaves the device-visible position,
\* velocity, spawnTime and lifetime of every slot no burst has selected
\* (its host spawn time is still the constructor's) as they were.
C31_BurstLeavesOtherSlots ==
    [][lastOp' = "render" =>
          \A i \in Slots(config.maxParticles) :
              cpuAges[i] = InitialAges(config.maxParticles)[i] =>
                  /\ positions'[i] = positions[i]
                  /\ velocities'[i] = velocities[i]
                  /\ ages'[i] = ages[i]
                  /\ lifetimes'[i] = lifetimes[i]]_vars

\* C32: every head index is within 0 .. segments - 1; the latest sample wrote
\* the position of each particle p at ring index p * segments + ((head_p + 1)
\* mod segments), a cell of p's own region, and left head_p at (head_p + 1)
\* mod segments.
C32_SampleWritesOwnRegionAtNewHead ==
    TrailOn =>
        /\ \A p \in Slots(config.maxParticles) :
              trailHeadIndices[p] >= 0 /\ trailHeadIndices[p] < Segments
        /\ sampleLog # <<>> =>
              \A p \in Slots(config.maxParticles) :
                  LET before == Recent(0).head[p]
                      cell == Recent(0).at[p]
                  IN  /\ cell = p * Segments + ((before + 1) % Segments)
                      /\ cell >= p * Segments
                      /\ cell < (p + 1) * Segments
                      /\ trailPositions[cell] = Recent(0).pos[p]
                      /\ trailHeadIndices[p] = (before + 1) % Segments

\* two particles with rings of at least two cells have been sampled until
\* their heads wrapped
C32_Witness ==
    /\ TrailOn
    /\ config.maxParticles = 2
    /\ Segments >= 2
    /\ sampleCount > Segments
    /\ trailPositions[Recent(0).at[1]] # 0

\* C33: the accumulator holds less than one particle (ten tenths) after every
\* update, and together with the particles flushed so far it accounts for the
\* whole of rate x elapsed time: the accumulator is the fractional part of
\* that product and the ring cursor has advanced by its floor.
C33_AccumulatorFlushesWholeCounts ==
    LET product == config.emissionRate * uTime
    IN  /\ emissionAccumulator >= 0
        /\ emissionAccumulator < 10
        /\ emissionAccumulator = product % 10
        /\ nextSpawnIndex = (product \div 10) % config.maxParticles

\* a frame that flushed nothing has followed one that flushed a particle, and
\* a fraction is held over
C33_Witness ==
    /\ lastOp = "update"
    /\ lastPass.ran
    /\ lastPass.count = 0
    /\ config.emissionRate > 0
    /\ emissionAccumulator > 0
    /\ nextSpawnIndex > 0

\* C34: the ring cursor of continuous emission is 0 at construction and always
\* within 0 .. maxParticles - 1; an update call that spawns c particles starts
\* its range at the cursor and leaves the cursor at (cursor + c) mod
\* maxParticles, where the next range starts; play(), pause() and stop() leave
\* it as it is.
C34_CursorLifecycle ==
    [][/\ lastOp = "new" => nextSpawnIndex = 0
       /\ nextSpawnIndex' >= 0
       /\ nextSpawnIndex' < config.maxParticles
       /\ (framePC = "idle" /\ lastOp' = "update" /\ lastPass'.ran) =>
             /\ lastPass'.count > 0 => lastPass'.offset = nextSpawnIndex
             /\ nextSpawnIndex' =
                   (nextSpawnIndex + lastPass'.count) % config.maxParticles
       /\ lastOp' \in {"play", "pause", "stop"} =>
             nextSpawnIndex' = nextSpawnIndex]_vars

\* the cursor has wrapped round the ring, and the system is stopped with the
\* cursor away from slot 0
C34_Witness ==
    /\ lastOp = "stop"
    /\ nextSpawnIndex > 0
    /\ config.emissionRate * uTime > 10 * config.maxParticles

(***************************************************************************)
(* Continuous emission mixed with bursts whose lifetimes vary              *)
(***************************************************************************)
MixedConfigs ==
    [maxParticles : 1 .. MaxMixedCapacity, lifetime : {2}, emissionRate : {0, 5},
     velocity : {2}, velocityVariation : {1}, emitterSize : {1}, gravity : {-1},
     drag : {0}]

\* two draws of Math.random() for a burst's lifetime: no variation and +0.4 s
MixedOffsets == {0, SpawnLifetimeVariation - 1}

MixedInit ==
    /\ \E cfg \in MixedConfigs : SystemInit(cfg)
    /\ SorterInit(1)

MixedFrame ==
    /\ uTime + 1 <= MaxMixedTime
    /\ \E rp \in [Slots(config.maxParticles) -> RandPosition],
          rv \in [Slots(config.maxParticles) -> RandVelocity] : Update(1, rp, rv)

MixedBurst ==
    \E rl \in [{0} -> MixedOffsets], rv \in [{0} -> RandVelocity] : Burst(1, rl, rv)

MixedNext == MixedFrame \/ MixedBurst \/ Render

SpecMixed == MixedInit /\ [][MixedNext]_vars

\* slot i fails the alive predicate of the kernel before a step and passes
\* it after
ComesAlive(i) ==
    /\ ~IsAlive(pTime, ages[i], lifetimes[i])
    /\ IsAlive(pTime', ages'[i], lifetimes'[i])

\* the step's pass spawns slot i, or the step uploads a host record of slot i
\* that a burst wrote no earlier than the device's record was spawned
SpawnedOver(i) ==
    \/ /\ lastOp' = "update"
       /\ lastPass'.ran
       /\ ShouldSpawn(i, lastPass'.count, lastPass'.offset, config.maxParticles)
    \/ /\ lastOp' \in {"update", "render"}
       /\ needsUpdate
       /\ cpuAges[i] >= ages[i]

\* C35: a slot that fails the alive predicate keeps failing it until a spawn
\* (range of a pass or burst) overwrites it, and a slot fails it whenever the
\* time is at or beyond its spawn time plus its lifetime.
C35_DeadStaysDead ==
    [][\A i \in Slots(config.maxParticles) :
          /\ ComesAlive(i) => SpawnedOver(i)
          /\ pTime >= ages[i] + lifetimes[i] =>
                ~IsAlive(pTime, ages[i], lifetimes[i])]_vars

(***************************************************************************)
(* The random values of the spawn block: hash(seed + k) of the kernel      *)
(***************************************************************************)
\* time.mul(1000).toInt(), time in ticks of 0.1 s
TimeBits(time) == 100 * time

\* seed = i.add(time.mul(1000).toInt())
Seed(i, time) == i + TimeBits(time)

\* the six hash calls of the spawn block: randX, randY, randZ, randVelX,
\* randVelY, randVelZ take hash(seed), hash(seed.add(1)), ... hash(seed.add(5))
HashComponents == 0 .. 5
RandXComponent == 0
RandVelXComponent == 3

\* the argument of the k-th hash call of lane i
HashInput(i, time, k) == Seed(i, time) + k

\* every argument a pass at time hands to hash()
HashInputs(time, n) == {HashInput(i, time, k) : i \in Slots(n), k \in HashComponents}

\* what hash() may yield, as multiples of the emitter size and of the
\* velocity variation
HashValues == {0, 1}

HashConfigs ==
    [maxParticles : 1 .. MaxHashCapacity, lifetime : {2}, emissionRate : {0, 25},
     velocity : {2}, velocityVariation : {1}, emitterSize : {1}, gravity : {-1},
     drag : {0}]

HashInit ==
    /\ \E cfg \in HashConfigs : SystemInit(cfg)
    /\ SorterInit(1)

\* update(): the position and velocity variation of a slot are the hash of
\* its first and of its fourth argument, for whatever function hash is
HashFrame ==
    \E d \in {1, 2} :
        /\ uTime + d <= MaxHashTime
        /\ \E hash \in [HashInputs(pTime + d, config.maxParticles) -> HashValues] :
              Update(d,
                     [i \in Slots(config.maxParticles) |->
                         hash[HashInput(i, pTime + d, RandXComponent)]],
                     [i \in Slots(config.maxParticles) |->
                         hash[HashInput(i, pTime + d, RandVelXComponent)]])

SpecHash == HashInit /\ [][HashFrame]_vars

\* the slots the last pass spawned
SpawnedByLastPass ==
    {i \in Slots(config.maxParticles) :
        ShouldSpawn(i, lastPass.count, lastPass.offset, config.maxParticles)}

\* C36: in a pass no argument of hash() is used for two random components of
\* one spawned slot, nor for components of two different spawned slots.
C36_HashInputsDistinct ==
    lastPass.ran =>
        \A i, j \in SpawnedByLastPass :
            \A k, l \in HashComponents :
                (i # j \/ k # l) =>
                    HashInput(i, lastPass.time, k) # HashInput(j, lastPass.time, l)

(***************************************************************************)
(* The two clocks: update, burst, render, play, pause and stop in any      *)
(* order                                                                   *)
(***************************************************************************)
ClockConfigs ==
    [maxParticles : 1 .. MaxClockCapacity, lifetime : {2}, emissionRate : {0, 15},
     velocity : {2}, velocityVariation : {1}, emitterSize : {1}, gravity : {-1},
     drag : {0}]

ClockInit ==
    /\ \E cfg \in ClockConfigs : SystemInit(cfg)
    /\ SorterInit(1)

ClockFrame ==
    \E d \in Deltas :
        /\ uTime + d <= MaxClockTime
        /\ \E rp \in [Slots(config.maxParticles) -> RandPosition],
              rv \in [Slots(config.maxParticles) -> RandVelocity] : Update(d, rp, rv)

ClockBurst ==
    \E rl \in [{0} -> BurstOffsets], rv \in [{0} -> RandVelocity] : Burst(1, rl, rv)

ClockNext == ClockFrame \/ ClockBurst \/ Render \/ Play \/ Pause \/ Stop

SpecClock == ClockInit /\ [][ClockNext]_vars

\* C37: the facade's simulation time and the compute pipeline's simulation
\* time are equal in every state; a burst stamps its spawns with that time.
C37_ClocksAgree ==
    /\ uTime = pTime
    /\ lastOp = "burst" => currentTime = pTime

\* a burst was made after time had advanced and the system had been paused
\* over an update call
C37_Witness ==
    /\ lastOp = "burst"
    /\ isPaused
    /\ uTime > 1
    /\ \E i \in Slots(config.maxParticles) : cpuAges[i] = pTime

\* C38: every sample tick advances the head of every slot, whatever the
\* slot's state: all head indices are equal, and equal to the number of
\* samples taken modulo segments.
C38_HeadsInLockStep ==
    TrailOn =>
        \A p \in Slots(config.maxParticles) :
            trailHeadIndices[p] = sampleCount % Segments

\* the heads of two slots have wrapped while one slot was alive and the other
\* was not
C38_Witness ==
    /\ TrailOn
    /\ config.maxParticles = 2
    /\ Segments >= 2
    /\ sampleCount > Segments
    /\ \E p, q \in Slots(config.maxParticles) :
          /\ IsAlive(pTime, ages[p], lifetimes[p])
          /\ ~IsAlive(pTime, ages[q], lifetimes[q])

(***************************************************************************)
(* VFXSystemGroup: one GPUParticleSystem per style, played, paused,        *)
(* stopped and updated together.  The system of the first style is the     *)
(* system of this module; of the others the group holds the play flags.    *)
(***************************************************************************)
MaxGroupStyles == 2
MaxGroupCapacity == 2
MaxGroupTime == 3

GroupConfigs ==
    [maxParticles : 1 .. MaxGroupCapacity, lifetime : {2}, emissionRate : {0, 15},
     velocity : {2}, velocityVariation : {1}, emitterSize : {1}, gravity : {-1},
     drag : {0}]

\* private _isPlaying = true; private _isPaused = false of a new
\* GPUParticleSystem
NewSystemFlags == [isPlaying |-> TRUE, isPaused |-> FALSE]

\* private _isPlaying: boolean = false of a new VFXSystemGroup
GroupStartsPlaying == FALSE

\* new VFXSystemGroup(config): the fields, and one new system per style
GroupInit ==
    /\ \E cfg \in GroupConfigs, n \in 1 .. MaxGroupStyles :
          /\ SystemFieldsInit(cfg, InitialPositions(cfg.maxParticles), "idle")
          /\ vfxGroup = [styles |-> n, isPlaying |-> GroupStartsPlaying,
                         isPaused |-> FALSE,
                         systems |-> [k \in 2 .. n |-> NewSystemFlags]]
    /\ vfxManager = NoManager
    /\ SorterInit(1)

\* VFXSystemGroup.play()
GroupPlay ==
    /\ vfxGroup' = [vfxGroup EXCEPT !.isPlaying = TRUE, !.isPaused = FALSE,
                       !.systems = [k \in DOMAIN @ |->
                                       [isPlaying |-> TRUE, isPaused |-> FALSE]]]
    /\ SetPlayState(TRUE, FALSE, "play")
    /\ UNCHANGED vfxManager

\* VFXSystemGroup.pause()
GroupPause ==
    /\ vfxGroup' = [vfxGroup EXCEPT !.isPaused = TRUE,
                       !.systems = [k \in DOMAIN @ |-> [@[k] EXCEPT !.isPaused = TRUE]]]
    /\ SetPlayState(isPlaying, TRUE, "pause")
    /\ UNCHANGED vfxManager

\* VFXSystemGroup.stop()
GroupStop ==
    /\ vfxGroup' = [vfxGroup EXCEPT !.isPlaying = FALSE, !.isPaused = FALSE,
                       !.systems = [k \in DOMAIN @ |->
                                       [isPlaying |-> FALSE, isPaused |-> FALSE]]]
    /\ SetPlayState(FALSE, FALSE, "stop")
    /\ UNCHANGED vfxManager

\* VFXSystemGroup.update(renderer, deltaTime, camera): update() of every system
GroupUpdate ==
    \E d \in {1, 2} :
        /\ uTime + d <= MaxGroupTime
        /\ \E rp \in [Slots(config.maxParticles) -> RandPosition],
              rv \in [Slots(config.maxParticles) -> RandVelocity] : Update(d, rp, rv)

GroupNext == GroupPlay \/ GroupPause \/ GroupStop \/ GroupUpdate

SpecGroup == GroupInit /\ [][GroupNext]_vars

\* VFXSystemGroup.isPlaying()
GroupIsPlaying == vfxGroup.isPlaying /\ ~vfxGroup.isPaused

\* VFXSystemGroup.isPaused()
GroupIsPaused == vfxGroup.isPaused

\* the play flags of every system of the group
GroupSystems ==
    {[isPlaying |-> isPlaying, isPaused |-> isPaused]}
        \cup {vfxGroup.systems[k] : k \in DOMAIN vfxGroup.systems}

\* C39: the group reports playing exactly when the update of every one of
\* its systems runs, and reports paused exactly when every one of its
\* systems is paused.
C39_GroupAgreesWithSystems ==
    /\ GroupIsPlaying <=> \A c \in GroupSystems : ~Skips(c.isPaused, c.isPlaying)
    /\ GroupIsPaused <=> \A c \in GroupSystems : c.isPaused

(***************************************************************************)
(* VFXManager: named systems that share the manager's depth-collision      *)
(* provider.  Of each system the manager's state holds the provider list   *)
(* of the facade and the one of its compute pipeline.                      *)
(***************************************************************************)
MaxManagerCreations == 4

ManagerNames == {"fire", "smoke", "sparks"}

\* the provider setupDepthCollision() creates, one for the whole manager
SharedDepthCollisionProvider == <<"DepthCollision", "manager">>

\* a provider of its own that the caller registers on the system of a name
OwnProvider(name) == <<"Force", name>>

ManagerProviders ==
    {SharedDepthCollisionProvider} \cup {OwnProvider(n) : n \in ManagerNames}

SeqRange(seq) == {seq[k] : k \in DOMAIN seq}

\* new VFXManager(scene, renderer, camera, config)
ManagerInit ==
    /\ \E enabled \in BOOLEAN :
          vfxManager = [depthCollisionEnabled |-> enabled,
                        systems |-> [n \in {} |-> <<>>],
                        disposeCalls |-> [p \in ManagerProviders |-> 0],
                        created |-> 0]
    /\ vfxGroup = NoGroup
    /\ SystemFieldsInit([maxParticles |-> 1, lifetime |-> 2, emissionRate |-> 0,
                         velocity |-> 2, velocityVariation |-> 1, emitterSize |-> 1,
                         gravity |-> -1, drag |-> 0],
                        InitialPositions(1), "idle")
    /\ SorterInit(1)

\* the providers createSystem() registers on the new system
ProvidersAtCreation(enabled) ==
    IF enabled THEN <<SharedDepthCollisionProvider>> ELSE <<>>

\* VFXManager.createSystem(name, config)
CreateSystem(name) ==
    /\ name \notin DOMAIN vfxManager.systems
    /\ vfxManager.created < MaxManagerCreations
    /\ vfxManager' =
          [vfxManager EXCEPT
              !.systems = [n \in DOMAIN @ \cup {name} |->
                  IF n = name
                  THEN [providers |->
                            ProvidersAtCreation(vfxManager.depthCollisionEnabled),
                        pipelineProviders |->
                            ProvidersAtCreation(vfxManager.depthCollisionEnabled)]
                  ELSE @[n]],
              !.created = @ + 1]
    /\ UNCHANGED <<facadeVars, pipelineVars, providerVars, burstVars, hostVars,
                   deviceVars, historyVars, sorterVars, trailVars, frameVars,
                   vfxGroup>>

\* getSystem(name).addProvider(provider) with a provider made for that system
ManagerAddProvider(name) ==
    /\ name \in DOMAIN vfxManager.systems
    /\ OwnProvider(name) \notin SeqRange(vfxManager.systems[name].providers)
    /\ vfxManager.disposeCalls[OwnProvider(name)] = 0
    /\ vfxManager' =
          [vfxManager EXCEPT
              !.systems[name] =
                  [providers |-> Append(@.providers, OwnProvider(name)),
                   pipelineProviders |->
                       Append(@.pipelineProviders, OwnProvider(name))]]
    /\ UNCHANGED <<facadeVars, pipelineVars, providerVars, burstVars, hostVars,
                   deviceVars, historyVars, sorterVars, trailVars, frameVars,
                   vfxGroup>>

\* the number of dispose() calls a provider gets when one list is walked
DisposeCallsIn(list, p) == Cardinality({k \in DOMAIN list : list[k] = p})

\* GPUParticleSystem.dispose(): computePipeline.dispose() walks the
\* pipeline's providers, then the facade walks its own
DisposeCallsOfSystem(system, p) ==
    DisposeCallsIn(system.pipelineProviders, p) + DisposeCallsIn(system.providers, p)

\* VFXManager.removeSystem(name)
RemoveSystem(name) ==
    /\ name \in DOMAIN vfxManager.systems
    /\ vfxManager' =
          [vfxManager EXCEPT
              !.disposeCalls = [p \in ManagerProviders |->
                  @[p] + DisposeCallsOfSystem(vfxManager.systems[name], p)],
              !.systems = [n \in DOMAIN @ \ {name} |-> @[n]]]
    /\ UNCHANGED <<facadeVars, pipelineVars, providerVars, burstVars, hostVars,
                   deviceVars, historyVars, sorterVars, trailVars, frameVars,
                   vfxGroup>>

ManagerCreates == \E name \in ManagerNames : CreateSystem(name)
ManagerAdds == \E name \in ManagerNames : ManagerAddProvider(name)
ManagerRemoves == \E name \in ManagerNames : RemoveSystem(name)

ManagerNext == ManagerCreates \/ ManagerAdds \/ ManagerRemoves

SpecManager == ManagerInit /\ [][ManagerNext]_vars

\* C40: no provider registered on a system the manager still holds has been
\* disposed, and no provider has been disposed more than once.
C40_RemovalLeavesOthersIntact ==
    /\ \A n \in DOMAIN vfxManager.systems :
          \A p \in SeqRange(vfxManager.systems[n].providers) :
              vfxManager.disposeCalls[p] = 0
    /\ \A p \in ManagerProviders : vfxManager.disposeCalls[p] <= 1
====
